---- MODULE Spec2Model ----
(***************************************************************************)
(* Weather map editor (WeatherMapEditor component and its useHistory       *)
(* hook): the undo history store, the element document, the selection,     *)
(* the clipboard and the pointer gestures, as a state machine.             *)
(*                                                                         *)
(* Every handler of the component is one atomic action: React runs the     *)
(* state updaters of one event before the next event is delivered, so the  *)
(* closure values a handler reads (elements, selectedIds, ...) are the     *)
(* current state.                                                          *)
(***************************************************************************)
EXTENDS Integers, Sequences, FiniteSets, TLC

VARIABLES
    elements,          \* useHistory `state`: the live element list
    historyRef,        \* historyRef.current: the snapshots, oldest first
    historyIndexRef,   \* historyIndexRef.current: 0-based cursor
    \* ---- observation variables of the history store runs ----
    log,               \* every state recorded as a snapshot so far, in order
    nextVal,           \* next fresh abstract state value
    free,              \* operations other than the initial run of commits
    undoRun,           \* consecutive undo calls since the last other call
    \* ---- observation variables shared by all runs ----
    lastOp,            \* name of the last operation
    pre,               \* live state before the last operation
    preIdx,            \* cursor before the last operation
    pushes,            \* number of snapshots recorded so far
    gest,              \* the pointer gesture in progress or just completed
    tainted,           \* a project file has been imported in this run
    \* ---- WeatherMapEditor state ----
    selectedIds,       \* useState<string[]>
    clipboard,         \* useState<ElementT[]>
    activeTool,
    chosenIconId,
    ghost,             \* null | {x, y}
    drawingZone,       \* null | {kind, cx, cy, r}
    isDrawingSelection,
    selectionBox,      \* null | {x0, y0, x1, y1}
    dragRef,           \* dragRef.current: null | {ids, dx, dy}
    resizeRef,         \* resizeRef.current: null | {mode, ids, anchorId, ...}
    contextMenu,       \* null | {target, targetIds, stageX, stageY}
    editModal,         \* null | {elementId}
    customIcons,
    lastLabelFontSize,
    lastTempFontSize,
    lastWindFontSize,
    steps,             \* events the run may still handle
    bgId,
    bgUrl,
    aspectRatio,
    imageLoads,        \* the FileReader and Image loads whose onload is to come
    bgRequested,       \* the background asked for last, and how many were
    uidNext,           \* uid(): the next fresh id
    \* ---- the auto-save interval ----
    autosaveTimer,     \* time units until the interval's callback runs
    sinceSave,         \* time units since the last write (or the start)
    \* ---- the pointing device ----
    pointer            \* {down, capture}: button state and pointer capture

histVars  == <<elements, historyRef, historyIndexRef>>
storeObs  == <<log, nextVal, free, undoRun>>
obsVars   == <<lastOp, pre, preIdx, pushes, gest, tainted, steps>>
selVars   == <<selectedIds, clipboard>>
toolVars  == <<activeTool, chosenIconId, ghost>>
drawVars  == <<drawingZone, isDrawingSelection, selectionBox>>
refVars   == <<dragRef, resizeRef>>
menuVars  == <<contextMenu, editModal>>
prefVars  == <<customIcons, lastLabelFontSize, lastTempFontSize, lastWindFontSize>>
bgVars    == <<bgId, bgUrl, aspectRatio, imageLoads, bgRequested>>
editorVars == <<selVars, toolVars, drawVars, refVars, menuVars, prefVars,
                bgVars, uidNext, pointer>>
saveVars  == <<autosaveTimer, sinceSave>>
vars      == <<histVars, storeObs, obsVars, editorVars, saveVars>>

NULL == [null |-> TRUE]
UNDEF == [undefined |-> TRUE]
NOT_ARRAY == [notArray |-> TRUE]

\* a JSON array, and Array.isArray
Array(items) == [array |-> items]
isArray(v) == "array" \in DOMAIN v

(***************************************************************************)
(* Program constants and bounds                                            *)
(***************************************************************************)
maxHistorySize == 50

\* AUTO_SAVE_INTERVAL (30000 ms), in time units of 10 seconds
AUTO_SAVE_INTERVAL == 3

MaxCommits == 52     \* commits of the initial run in a history store run
MaxFree    == 4      \* freely interleaved store operations after that run
MaxUndoRun == 51     \* length of an uninterrupted run of undo calls

(***************************************************************************)
(* useHistory                                                              *)
(***************************************************************************)
\* slice(0, index + 1), push(s), then shift() when over the cap, else index++
PushedNoEvict(h, i, s) ==
    LET t == SubSeq(h, 1, i + 1) \o <<s>>
    IN  [hist |-> t, idx |-> i + 1]

PushedNoTruncate(h, i, s) ==
    LET t == h \o <<s>>
    IN  IF Len(t) > maxHistorySize
        THEN [hist |-> Tail(t), idx |-> i]
        ELSE [hist |-> t, idx |-> i + 1]

Pushed(h, i, s) ==
    LET t == SubSeq(h, 1, i + 1) \o <<s>>
    IN  IF Len(t) > maxHistorySize
        THEN [hist |-> Tail(t), idx |-> i]
        ELSE [hist |-> t, idx |-> i + 1]

\* setState (updateState): commit newState and record it
updateState(newState) ==
    /\ elements' = newState
    /\ historyRef' = Pushed(historyRef, historyIndexRef, newState).hist
    /\ historyIndexRef' = Pushed(historyRef, historyIndexRef, newState).idx

\* setStateWithoutHistory: live state only
setStateWithoutHistory(newState) ==
    /\ elements' = newState
    /\ UNCHANGED <<historyRef, historyIndexRef>>

\* commit: record the current live state
commit ==
    /\ elements' = elements
    /\ historyRef' = Pushed(historyRef, historyIndexRef, elements).hist
    /\ historyIndexRef' = Pushed(historyRef, historyIndexRef, elements).idx

\* the live state an undo leaves
UndoneKeepLive(h, i, s) == [state |-> s, idx |-> IF i > 0 THEN i - 1 ELSE i]

Undone(h, i, s) ==
    IF i > 0 THEN [state |-> h[i], idx |-> i - 1]
             ELSE [state |-> s, idx |-> i]

undo ==
    /\ elements' = Undone(historyRef, historyIndexRef, elements).state
    /\ historyIndexRef' = Undone(historyRef, historyIndexRef, elements).idx
    /\ UNCHANGED historyRef

\* the snapshot at the cursor
AtCursor == historyRef[historyIndexRef + 1]

Observe(op) ==
    /\ lastOp' = op
    /\ pre' = elements
    /\ preIdx' = historyIndexRef

\* the component's useState / useRef initial values
EditorDefaults ==
    /\ selectedIds = <<>>
    /\ clipboard = <<>>
    /\ activeTool = "select"
    /\ chosenIconId = "sun"
    /\ ghost = NULL
    /\ drawingZone = NULL
    /\ isDrawingSelection = FALSE
    /\ selectionBox = NULL
    /\ dragRef = NULL
    /\ resizeRef = NULL
    /\ contextMenu = NULL
    /\ editModal = NULL
    /\ customIcons = Array(<<>>)
    /\ lastLabelFontSize = 20
    /\ lastTempFontSize = 20
    /\ lastWindFontSize = 20
    /\ bgId = "grid"
    /\ bgUrl = "grid-src"
    /\ aspectRatio = "16 / 9"
    /\ imageLoads = {}
    /\ bgRequested = [n |-> 0, id |-> "grid", src |-> "grid-src",
                      ratio |-> "16 / 9"]
    /\ pointer = [down |-> FALSE, capture |-> NULL]
    /\ autosaveTimer = AUTO_SAVE_INTERVAL
    /\ sinceSave = 0

(***************************************************************************)
(* The history store on its own: useHistory<T> over abstract states.       *)
(* A run is an initial series of commits of fresh states, followed either  *)
(* by up to MaxFree operations in any order or by one run of undo calls.   *)
(***************************************************************************)
HInit ==
    /\ elements = 0
    /\ historyRef = <<0>>
    /\ historyIndexRef = 0
    /\ log = <<>>
    /\ nextVal = 1
    /\ free = 0
    /\ undoRun = 0
    /\ lastOp = "init"
    /\ pre = 0
    /\ preIdx = 0
    /\ pushes = 0
    /\ gest = NULL
    /\ tainted = FALSE
    /\ steps = 0
    /\ EditorDefaults
    /\ uidNext = 1

HCommit ==
    /\ Len(log) < MaxCommits
    /\ free < MaxFree
    /\ updateState(nextVal)
    /\ log' = Append(log, nextVal)
    /\ nextVal' = nextVal + 1
    /\ free' = IF free = 0 THEN 0 ELSE free + 1
    /\ undoRun' = 0
    /\ pushes' = pushes + 1
    /\ Observe("commit")
    /\ UNCHANGED <<gest, tainted, steps, editorVars, saveVars>>

HSetTransient ==
    /\ free < MaxFree
    /\ setStateWithoutHistory(nextVal)
    /\ nextVal' = nextVal + 1
    /\ free' = free + 1
    /\ undoRun' = 0
    /\ UNCHANGED <<log, pushes>>
    /\ Observe("setTransient")
    /\ UNCHANGED <<gest, tainted, steps, editorVars, saveVars>>

HCommitCurrent ==
    /\ Len(log) < MaxCommits
    /\ free < MaxFree
    /\ commit
    /\ log' = Append(log, elements)
    /\ free' = free + 1
    /\ undoRun' = 0
    /\ pushes' = pushes + 1
    /\ UNCHANGED nextVal
    /\ Observe("commitCurrent")
    /\ UNCHANGED <<gest, tainted, steps, editorVars, saveVars>>

HUndo ==
    /\ \/ free < MaxFree
       \/ undoRun = free /\ undoRun < MaxUndoRun
    /\ undo
    /\ free' = free + 1
    /\ undoRun' = undoRun + 1
    /\ UNCHANGED <<log, nextVal, pushes>>
    /\ Observe("undo")
    /\ UNCHANGED <<gest, tainted, steps, editorVars, saveVars>>

HNext == HCommit \/ HSetTransient \/ HCommitCurrent \/ HUndo

SpecHistory == HInit /\ [][HNext]_vars

(***************************************************************************)
(* Claims on the history store                                             *)
(***************************************************************************)
IsSuffix(s, t) ==
    /\ Len(s) <= Len(t)
    /\ s = SubSeq(t, Len(t) - Len(s) + 1, Len(t))

\* a run of only commits followed by only undo calls
CommitsThenUndos == free = undoRun

\* C1: after more than 50 commits with no undo in between, 49 consecutive
\* undo calls make the live state the oldest retained snapshot, which is the
\* 50th most recent committed state, and the 50th undo changes neither the
\* live state nor the cursor.
C1_UndoStopsAtOldestRetained ==
    (/\ Len(log) > maxHistorySize
     /\ CommitsThenUndos
     /\ undoRun \in {maxHistorySize - 1, maxHistorySize})
    => /\ elements = log[Len(log) - (maxHistorySize - 1)]
       /\ elements = historyRef[1]
       /\ historyIndexRef = 0

C1_Witness ==
    /\ Len(log) > maxHistorySize
    /\ CommitsThenUndos
    /\ undoRun = maxHistorySize
    /\ lastOp = "undo"

\* C2: the history always holds between 1 and 50 snapshots and the cursor is
\* a valid index into it; right after a commit or commitCurrent the cursor is
\* the last index and the history is the old history up to the old cursor
\* followed by the recorded state (less the evicted oldest snapshot).
C2_Bounds ==
    /\ Len(historyRef) >= 1
    /\ Len(historyRef) <= maxHistorySize
    /\ historyIndexRef >= 0
    /\ historyIndexRef <= Len(historyRef) - 1

C2_CommitStep ==
    lastOp' \in {"commit", "commitCurrent"} /\ pushes' = pushes + 1
    => /\ historyIndexRef' = Len(historyRef') - 1
       /\ IsSuffix(historyRef',
                   SubSeq(historyRef, 1, historyIndexRef + 1) \o <<elements'>>)
       /\ Len(historyRef') >= Len(SubSeq(historyRef, 1, historyIndexRef + 1))

C2_HistoryBoundedAndTruncated == []C2_Bounds /\ [][C2_CommitStep]_vars

C2_Witness ==
    /\ lastOp = "commit"
    /\ Len(log) > maxHistorySize
    /\ Len(historyRef) < maxHistorySize
    /\ preIdx < historyIndexRef

\* C3 as stated: right after every commit, commitCurrent or undo the live
\* state equals the snapshot at the cursor.
C3_LiveEqualsCursorAfterAnyCall ==
    lastOp \in {"commit", "commitCurrent", "undo"} => elements = AtCursor

\* C3 amended: right after every commit or commitCurrent, and after every
\* undo issued at a cursor above 0, the live state equals the snapshot at the
\* cursor; an undo issued at cursor 0 leaves live state and cursor unchanged.
C3_LiveEqualsCursorUnlessUndoAtZero ==
    /\ lastOp \in {"commit", "commitCurrent"} => elements = AtCursor
    /\ lastOp = "undo" /\ preIdx > 0
         => elements = AtCursor /\ historyIndexRef = preIdx - 1
    /\ lastOp = "undo" /\ preIdx = 0
         => elements = pre /\ historyIndexRef = 0

\* an undo issued above cursor 0 after a transient update never committed
C3_Witness ==
    /\ lastOp = "undo"
    /\ preIdx > 0
    /\ pre # historyRef[preIdx + 1]
    /\ elements = AtCursor

(***************************************************************************)
(* WeatherMapEditor: data                                                  *)
(***************************************************************************)
MaxElems  == 4       \* elements in the document
MaxUid    == 4       \* ids handed out by uid()
MaxPushes == 3       \* snapshots recorded in one run of the editor
MaxSteps  == 4       \* events handled in one run of the editor
MaxGestureSteps == 5 \* events handled in one run of pointer gestures

\* stageSize.w in px: the measured width of the stage
StageWidth == 1000

Min(a, b) == IF a < b THEN a ELSE b
Max(a, b) == IF a > b THEN a ELSE b

clamp(n, min, max) == Max(min, Min(max, n))

MapSeq(s, F(_)) == [i \in 1..Len(s) |-> F(s[i])]
Includes(s, v) == \E i \in 1..Len(s) : s[i] = v
Ids(els) == MapSeq(els, LAMBDA e : e.id)
IdSet(els) == {els[i].id : i \in 1..Len(els)}

\* elements.find((x) => x.id === id): the first match, or NULL
Find(els, id) ==
    IF \E i \in 1..Len(els) : els[i].id = id
    THEN els[CHOOSE i \in 1..Len(els) :
                /\ els[i].id = id
                /\ \A j \in 1..(i - 1) : els[j].id # id]
    ELSE NULL

\* el?.locked: `locked` is optional
IsLocked(e) == e # NULL /\ "locked" \in DOMAIN e /\ e.locked

IconElement(id, iconId, x, y) ==
    [id |-> id, kind |-> "icon", iconId |-> iconId, x |-> x, y |-> y,
     size |-> 44, locked |-> FALSE]

LabelElement(id, x, y, fontSize) ==
    [id |-> id, kind |-> "label", text |-> "Ville", x |-> x, y |-> y,
     fontSize |-> fontSize, color |-> "#111827", bg |-> FALSE,
     border |-> FALSE, locked |-> FALSE]

TempElement(id, x, y, fontSize) ==
    [id |-> id, kind |-> "temp", value |-> "25", x |-> x, y |-> y,
     fontSize |-> fontSize, color |-> "#0f172a", bg |-> FALSE,
     border |-> FALSE, locked |-> FALSE]

WindElement(id, x, y, fontSize) ==
    [id |-> id, kind |-> "wind", speedKmh |-> 50, x |-> x, y |-> y,
     fontSize |-> fontSize, color |-> "#0369a1", bg |-> FALSE,
     border |-> FALSE, locked |-> FALSE]

\* radius is a number of percents of the stage width that need not be whole
\* (a zone as drawn keeps the digits of a square root): the model holds it
\* in hundredths of a percent
PressureZoneElement(id, zone, x, y, radius) ==
    [id |-> id, kind |-> "pressure", zone |-> zone, x |-> x, y |-> y,
     radius |-> radius, hemisphere |-> "North", locked |-> FALSE]

\* stagePointPctFromEvent: pointer positions in percent, already clamped
PointerPts ==
    {[x |-> 20, y |-> 50], [x |-> 50, y |-> 50], [x |-> 50, y |-> 10]}

GesturePts == PointerPts \cup {[x |-> 100, y |-> 50]}

\* the pointer position of an event on an element: over the element
HitPt(id) == [x |-> Find(elements, id).x, y |-> Find(elements, id).y]

PlacementTools == {"add-icon", "add-label", "add-temp", "add-wind"}
ZoneTools      == {"add-anticyclone", "add-depression"}
Tools          == {"select"} \cup PlacementTools \cup ZoneTools

ICONS ==
    << [id |-> "sun", label |-> "Soleil", glyph |-> "sun-glyph"],
       [id |-> "cloud", label |-> "Nuages", glyph |-> "cloud-glyph"] >>

IconIds == {ICONS[i].id : i \in 1..Len(ICONS)}

EMOJI_PICKER == {"star-glyph", "cloud-glyph"}

\* loadProjectFromLocalStorage(): no saved project, or a project autosaved by
\* an earlier session
SavedProjects ==
    { <<>>,
      << IconElement(1, "sun", 20, 50),
         [LabelElement(2, 100, 50, 20) EXCEPT !.locked = TRUE],
         PressureZoneElement(3, "anticyclone", 50, 10, 1000) >> }

SavedGestureProjects ==
    SavedProjects \cup
    { << LabelElement(1, 50, 50, 20),
         IconElement(2, "cloud", 100, 50),
         TempElement(3, 30, 50, 20) >> }

Init ==
    /\ elements \in SavedProjects
    /\ historyRef = <<elements>>
    /\ historyIndexRef = 0
    /\ log = <<>>
    /\ nextVal = 0
    /\ free = 0
    /\ undoRun = 0
    /\ lastOp = "init"
    /\ pre = elements
    /\ preIdx = 0
    /\ pushes = 0
    /\ gest = NULL
    /\ tainted = FALSE
    /\ steps = MaxSteps
    /\ EditorDefaults
    /\ uidNext = Len(elements) + 1

(***************************************************************************)
(* WeatherMapEditor: recording and observing                               *)
(***************************************************************************)
RecordNoSnapshot(newState) ==
    /\ pushes < MaxPushes
    /\ setStateWithoutHistory(newState)
    /\ pushes' = pushes + 1

\* setElements(f): record the new list
Record(newState) ==
    /\ pushes < MaxPushes
    /\ updateState(newState)
    /\ pushes' = pushes + 1

TransientRecorded(newState) ==
    /\ pushes < MaxPushes
    /\ updateState(newState)
    /\ pushes' = pushes + 1

\* setElementsTemp(f)
Transient(newState) ==
    /\ setStateWithoutHistory(newState)
    /\ pushes' = pushes

\* commitElements()
CommitCurrent ==
    /\ pushes < MaxPushes
    /\ commit
    /\ pushes' = pushes + 1

\* undoElements()
Undo ==
    /\ undo
    /\ pushes' = pushes

Keep ==
    /\ UNCHANGED histVars
    /\ pushes' = pushes

\* the auto-save effect after the render that follows an event (the last
\* step of every handler): when one
\* of its dependencies [bgId, bgUrl, aspectRatio, elements, customIcons]
\* has changed, the cleanup clears the interval and the body starts a new
\* one (a dependency changes at least when its value does)
AutoSaveEffect ==
    /\ autosaveTimer' =
            IF <<bgId', bgUrl', aspectRatio', elements', customIcons'>>
                    # <<bgId, bgUrl, aspectRatio, elements, customIcons>>
            THEN AUTO_SAVE_INTERVAL
            ELSE autosaveTimer
    /\ sinceSave' = sinceSave

\* one event of the run's budget (every handler tests the budget first)
Step ==
    /\ steps > 0
    /\ steps' = steps - 1

GestActive == gest # NULL /\ gest.phase = "active"

\* an event that is not part of the pointer gesture in progress
Evt(op) ==
    /\ Step
    /\ Observe(op)
    /\ gest' = IF GestActive THEN [gest EXCEPT !.clean = FALSE] ELSE NULL
    /\ UNCHANGED <<storeObs, tainted>>

\* an event of the pointer gesture
EvtG(op, g) ==
    /\ Step
    /\ Observe(op)
    /\ gest' = g
    /\ UNCHANGED <<storeObs, tainted>>

\* the edit modal is rendered (a full-screen overlay) when its element exists
ModalOpen == editModal # NULL /\ Find(elements, editModal.elementId) # NULL

Fresh(n) == uidNext + n - 1 <= MaxUid

(***************************************************************************)
(* Selection, clipboard, structural operations                             *)
(***************************************************************************)
toggleSelection(id) ==
    IF Includes(selectedIds, id)
    THEN SelectSeq(selectedIds, LAMBDA x : x # id)
    ELSE Append(selectedIds, id)

Selected(els) == SelectSeq(els, LAMBDA el : Includes(selectedIds, el.id))

\* copies of `items` with fresh ids, moved by (dx, dy) and not clamped
CopiesUnclamped(items, dx, dy) ==
    [i \in 1..Len(items) |->
        [items[i] EXCEPT !.id = uidNext + i - 1,
                         !.x = items[i].x + dx,
                         !.y = items[i].y + dy]]

\* copies of `items` with fresh ids, moved by (dx, dy) and clamped
Copies(items, dx, dy) ==
    [i \in 1..Len(items) |->
        [items[i] EXCEPT !.id = uidNext + i - 1,
                         !.x = clamp(items[i].x + dx, 0, 100),
                         !.y = clamp(items[i].y + dy, 0, 100)]]

PASTE_OFFSET == 5
DUPLICATE_OFFSET == 5

\* copySelected()
copySelected ==
    /\ clipboard' = IF Len(selectedIds) = 0 THEN clipboard ELSE Selected(elements)

\* pasteFromClipboard(): the default paste
pasteDefault ==
    IF Len(clipboard) = 0
    THEN Keep /\ UNCHANGED <<selectedIds, uidNext>>
    ELSE LET newElements == Copies(clipboard, PASTE_OFFSET, PASTE_OFFSET)
         IN  /\ Fresh(Len(newElements))
             /\ Len(elements) + Len(newElements) <= MaxElems
             /\ Record(elements \o newElements)
             /\ selectedIds' = Ids(newElements)
             /\ uidNext' = uidNext + Len(newElements)

Sum(s, F(_)) ==
    LET RECURSIVE Acc(_)
        Acc(n) == IF n = 0 THEN 0 ELSE Acc(n - 1) + F(s[n])
    IN  Acc(Len(s))

\* the centroid offsets el.x - avgX are whole percents
WholeOffsets(items) ==
    \A i \in 1..Len(items) :
        /\ (Len(items) * items[i].x - Sum(items, LAMBDA e : e.x)) % Len(items) = 0
        /\ (Len(items) * items[i].y - Sum(items, LAMBDA e : e.y)) % Len(items) = 0

\* pasteFromClipboard(atX, atY) with every copy placed on the anchor itself
CopiesOnAnchor(items, atX, atY) ==
    [i \in 1..Len(items) |->
        [items[i] EXCEPT !.id = uidNext + i - 1,
                         !.x = clamp(atX, 0, 100),
                         !.y = clamp(atY, 0, 100)]]

CopiesAt(items, atX, atY) ==
    LET n == Len(items)
        sumX == Sum(items, LAMBDA e : e.x)
        sumY == Sum(items, LAMBDA e : e.y)
    IN  [i \in 1..n |->
            [items[i] EXCEPT
                !.id = uidNext + i - 1,
                !.x = clamp(atX + (n * items[i].x - sumX) \div n, 0, 100),
                !.y = clamp(atY + (n * items[i].y - sumY) \div n, 0, 100)]]

\* pasteFromClipboard(atX, atY)
pasteAt(atX, atY) ==
    IF Len(clipboard) = 0
    THEN Keep /\ UNCHANGED <<selectedIds, uidNext>>
    ELSE LET newElements == CopiesAt(clipboard, atX, atY)
         IN  /\ WholeOffsets(clipboard)
             /\ Fresh(Len(newElements))
             /\ Len(elements) + Len(newElements) <= MaxElems
             /\ Record(elements \o newElements)
             /\ selectedIds' = Ids(newElements)
             /\ uidNext' = uidNext + Len(newElements)

\* duplicateSelected()
duplicateSelected ==
    IF Len(selectedIds) = 0
    THEN Keep /\ UNCHANGED <<selectedIds, uidNext>>
    ELSE LET newElements == Copies(Selected(elements), DUPLICATE_OFFSET, DUPLICATE_OFFSET)
         IN  /\ Fresh(Len(newElements))
             /\ Len(elements) + Len(newElements) <= MaxElems
             /\ Record(elements \o newElements)
             /\ selectedIds' = Ids(newElements)
             /\ uidNext' = uidNext + Len(newElements)

\* deleteSelected sparing the locked elements
deleteSelectedKeepLocked ==
    IF Len(selectedIds) = 0
    THEN Keep /\ UNCHANGED selectedIds
    ELSE /\ Record(SelectSeq(elements, LAMBDA e :
                        ~Includes(selectedIds, e.id) \/ IsLocked(e)))
         /\ selectedIds' = <<>>

\* deleteSelected()
deleteSelected ==
    IF Len(selectedIds) = 0
    THEN Keep /\ UNCHANGED selectedIds
    ELSE /\ Record(SelectSeq(elements, LAMBDA e : ~Includes(selectedIds, e.id)))
         /\ selectedIds' = <<>>

\* setLocked(ids, locked)
setLocked(ids, locked) ==
    IF Len(ids) = 0
    THEN Keep
    ELSE Record(MapSeq(elements, LAMBDA e :
                    IF Includes(ids, e.id)
                    THEN [f \in DOMAIN e \cup {"locked"} |->
                            IF f = "locked" THEN locked ELSE e[f]]
                    ELSE e))

\* addIconAtPct / addLabelAtPct / addTempAtPct / addWindAtPct
NewElement(tool, x, y) ==
    CASE tool = "add-icon"  -> IconElement(uidNext, chosenIconId, x, y)
      [] tool = "add-label" -> LabelElement(uidNext, x, y, lastLabelFontSize)
      [] tool = "add-temp"  -> TempElement(uidNext, x, y, lastTempFontSize)
      [] tool = "add-wind"  -> WindElement(uidNext, x, y, lastWindFontSize)

addAtPct(tool, x, y) ==
    /\ Fresh(1)
    /\ Len(elements) < MaxElems
    /\ Record(Append(elements, NewElement(tool, x, y)))
    /\ selectedIds' = <<uidNext>>
    /\ editModal' = IF tool = "add-icon" THEN editModal
                                         ELSE [elementId |-> uidNext]
    /\ uidNext' = uidNext + 1

(***************************************************************************)
(* Numeric helpers of the stage handlers                                   *)
(***************************************************************************)
\* floor of the square root
ISqrt(n) == CHOOSE k \in 0..1001 : k * k <= n /\ (k + 1) * (k + 1) > n

\* Math.round(clamp(Math.sqrt(d2), 2, 50) * 10), in tenths
RadiusTenths(d2) ==
    IF d2 <= 4 THEN 20
    ELSE IF d2 >= 2500 THEN 500
    ELSE (ISqrt(400 * d2) + 1) \div 2

\* the linear resize without the clamp to [lo, hi]
LinearTenthsUnclamped(init1000, delta1000, lo, hi) ==
    (2 * (init1000 + delta1000) + 100) \div 200

\* Math.round(clamp(init + delta, lo, hi) * 10), in tenths, where init is
\* init1000 / 1000 and delta is delta1000 / 1000
LinearTenths(init1000, delta1000, lo, hi) ==
    (2 * clamp(init1000 + delta1000, 1000 * lo, 1000 * hi) + 100) \div 200

\* the new size metric of el under a linear resize by dPct percent, in tenths
ResizedTenths(el, init, dPct) ==
    CASE el.kind = "icon" ->
            LinearTenths(1000 * init, dPct * StageWidth * 8, 16, 200)
      [] el.kind \in {"label", "temp", "wind"} ->
            LinearTenths(1000 * init, dPct * StageWidth * 5, 10, 120)
      [] el.kind = "pressure" ->
            LinearTenths(10 * init, dPct * 1000, 2, 50)

\* a metric of tenths/10 as the element holds it: size and fontSize are
\* whole in the model, a radius is held in hundredths
Held(el, tenths) ==
    IF el.kind = "pressure" THEN 10 * tenths ELSE tenths \div 10

WithMetric(el, v) ==
    CASE el.kind = "icon" -> [el EXCEPT !.size = v]
      [] el.kind \in {"label", "temp", "wind"} -> [el EXCEPT !.fontSize = v]
      [] el.kind = "pressure" -> [el EXCEPT !.radius = v]

Metric(el) ==
    CASE el.kind = "icon" -> el.size
      [] el.kind \in {"label", "temp", "wind"} -> el.fontSize
      [] el.kind = "pressure" -> el.radius

Dist2(ax, ay, bx, by) == (ax - bx) * (ax - bx) + (ay - by) * (ay - by)

\* the last element of the given kind among the resized ones, or NULL
LastResized(rr, kind) ==
    LET idx == {i \in 1..Len(elements) :
                    Includes(rr.ids, elements[i].id) /\ elements[i].kind = kind}
    IN  IF idx = {} THEN NULL
        ELSE elements[CHOOSE i \in idx : \A j \in idx : j <= i]

(***************************************************************************)
(* Stage handlers                                                          *)
(***************************************************************************)
\* onStagePointerMove, resize branch
resizeMove(p) ==
    LET rr == resizeRef
        dPct == p.x - rr.startXPct
        anchor == Find(elements, rr.anchorId)
        NewFs(kind, old) ==
            IF LastResized(rr, kind) = NULL THEN old
            ELSE ResizedTenths(LastResized(rr, kind),
                               rr.initialSizes[LastResized(rr, kind).id],
                               dPct) \div 10
    IN  IF rr.mode = "pressure"
        THEN /\ UNCHANGED <<lastLabelFontSize, lastTempFontSize, lastWindFontSize>>
             /\ IF anchor # NULL /\ anchor.kind = "pressure"
                THEN LET r10 == RadiusTenths(Dist2(p.x, p.y, anchor.x, anchor.y))
                     IN  /\ r10 % 10 = 0
                         /\ Transient(MapSeq(elements, LAMBDA e2 :
                               IF e2.id = anchor.id
                               THEN WithMetric(e2, Held(e2, r10)) ELSE e2))
                ELSE Keep
        ELSE /\ \A i \in 1..Len(elements) :
                    (Includes(rr.ids, elements[i].id)
                        /\ elements[i].kind # "pressure") =>
                        ResizedTenths(elements[i],
                                      rr.initialSizes[elements[i].id],
                                      dPct) % 10 = 0
             /\ Transient(MapSeq(elements, LAMBDA el :
                    IF ~Includes(rr.ids, el.id) THEN el
                    ELSE WithMetric(el, Held(el,
                            ResizedTenths(el, rr.initialSizes[el.id], dPct)))))
             /\ lastLabelFontSize' = NewFs("label", lastLabelFontSize)
             /\ lastTempFontSize' = NewFs("temp", lastTempFontSize)
             /\ lastWindFontSize' = NewFs("wind", lastWindFontSize)

\* the zone radius without the clamp to [2, 50]
ZoneRadiusUnclamped(d2) == 100 * ISqrt(d2)

\* Math.sqrt(d2) in hundredths, the further digits dropped, for d2 < 2500
SqrtHundredths(d2) ==
    LET k == ISqrt(d2)
    IN  CHOOSE j \in (100 * k)..(100 * k + 99) :
            j * j <= 10000 * d2 /\ (j + 1) * (j + 1) > 10000 * d2

\* clamp(Math.sqrt(d2), 2, 50), in hundredths
ZoneRadius(d2) ==
    IF d2 <= 4 THEN 200 ELSE IF d2 >= 2500 THEN 5000 ELSE SqrtHundredths(d2)

onStagePointerMove(p) ==
    IF resizeRef # NULL
    THEN /\ resizeMove(p)
         /\ UNCHANGED <<ghost, drawingZone, selectionBox>>
    ELSE /\ Keep
         /\ UNCHANGED <<lastLabelFontSize, lastTempFontSize, lastWindFontSize>>
         /\ IF activeTool \in PlacementTools
            THEN /\ ghost' = [x |-> p.x, y |-> p.y]
                 /\ UNCHANGED <<drawingZone, selectionBox>>
            ELSE IF drawingZone # NULL
            THEN /\ drawingZone' =
                        [drawingZone EXCEPT !.r =
                            ZoneRadius(Dist2(p.x, p.y, drawingZone.cx, drawingZone.cy))]
                 /\ UNCHANGED <<ghost, selectionBox>>
            ELSE IF isDrawingSelection /\ selectionBox # NULL
            THEN /\ selectionBox' = [selectionBox EXCEPT !.x1 = p.x, !.y1 = p.y]
                 /\ UNCHANGED <<ghost, drawingZone>>
            ELSE UNCHANGED <<ghost, drawingZone, selectionBox>>

\* elementsInBox taking the corners in the order given
elementsInBoxAsGiven(box) ==
    Ids(SelectSeq(elements, LAMBDA el :
            /\ el.x >= box.x0 /\ el.x <= box.x1
            /\ el.y >= box.y0 /\ el.y <= box.y1))

elementsInBox(box) ==
    LET minX == Min(box.x0, box.x1)
        maxX == Max(box.x0, box.x1)
        minY == Min(box.y0, box.y1)
        maxY == Max(box.y0, box.y1)
    IN  Ids(SelectSeq(elements, LAMBDA el :
            el.x >= minX /\ el.x <= maxX /\ el.y >= minY /\ el.y <= maxY))

onStagePointerUp ==
    IF resizeRef # NULL
    THEN /\ CommitCurrent
         /\ resizeRef' = NULL
         /\ UNCHANGED <<selectedIds, drawingZone, isDrawingSelection,
                        selectionBox, activeTool, uidNext>>
    ELSE IF drawingZone # NULL
    THEN /\ Fresh(1)
         /\ Len(elements) < MaxElems
         /\ Record(Append(elements,
                PressureZoneElement(uidNext, drawingZone.kind, drawingZone.cx,
                                    drawingZone.cy, clamp(drawingZone.r, 200, 5000))))
         /\ selectedIds' = <<uidNext>>
         /\ uidNext' = uidNext + 1
         /\ drawingZone' = NULL
         /\ activeTool' = "select"
         /\ UNCHANGED <<resizeRef, isDrawingSelection, selectionBox>>
    ELSE IF isDrawingSelection /\ selectionBox # NULL
    THEN /\ Keep
         /\ selectedIds' = elementsInBox(selectionBox)
         /\ isDrawingSelection' = FALSE
         /\ selectionBox' = NULL
         /\ UNCHANGED <<resizeRef, drawingZone, activeTool, uidNext>>
    ELSE /\ Keep
         /\ UNCHANGED <<selectedIds, resizeRef, drawingZone, isDrawingSelection,
                        selectionBox, activeTool, uidNext>>

onStagePointerDown(p, shiftKey) ==
    IF activeTool \in PlacementTools
    THEN IF ghost = NULL
         THEN /\ Keep
              /\ UNCHANGED <<selectedIds, editModal, uidNext, ghost, activeTool,
                             drawingZone, isDrawingSelection, selectionBox>>
         ELSE /\ addAtPct(activeTool, ghost.x, ghost.y)
              /\ ghost' = NULL
              /\ activeTool' = IF activeTool = "add-icon" /\ shiftKey
                               THEN activeTool ELSE "select"
              /\ UNCHANGED <<drawingZone, isDrawingSelection, selectionBox>>
    ELSE IF activeTool \in ZoneTools
    THEN /\ Keep
         /\ drawingZone' =
                [kind |-> IF activeTool = "add-anticyclone" THEN "anticyclone"
                                                            ELSE "depression",
                 cx |-> p.x, cy |-> p.y, r |-> 200]
         /\ UNCHANGED <<selectedIds, editModal, uidNext, ghost, activeTool,
                        isDrawingSelection, selectionBox>>
    ELSE /\ Keep
         /\ isDrawingSelection' = TRUE
         /\ selectionBox' = [x0 |-> p.x, y0 |-> p.y, x1 |-> p.x, y1 |-> p.y]
         /\ UNCHANGED <<selectedIds, editModal, uidNext, ghost, activeTool,
                        drawingZone>>

(***************************************************************************)
(* Element handlers                                                        *)
(***************************************************************************)
\* the ids onElementPointerDown drags
MovableIdsAll(id) ==
    IF Includes(selectedIds, id) THEN selectedIds ELSE <<id>>

MovableIds(id) ==
    SelectSeq(IF Includes(selectedIds, id) THEN selectedIds ELSE <<id>>,
              LAMBDA elId : ~IsLocked(Find(elements, elId)))

DragAnchor(id) ==
    IF Len(MovableIds(id)) = 0 THEN NULL ELSE Find(elements, MovableIds(id)[1])

MoveAllNoClamp(els, d, p) ==
    LET firstEl == Find(els, d.ids[1])
        offsetX == p.x - d.dx - firstEl.x
        offsetY == p.y - d.dy - firstEl.y
    IN  MapSeq(els, LAMBDA el :
            IF Includes(d.ids, el.id) /\ ~IsLocked(el)
            THEN [el EXCEPT !.x = el.x + offsetX, !.y = el.y + offsetY]
            ELSE el)

\* onElementPointerMove: prev.map(...) with the offsets of drag d at p
MoveAll(els, d, p) ==
    LET firstEl == Find(els, d.ids[1])
        offsetX == p.x - d.dx - firstEl.x
        offsetY == p.y - d.dy - firstEl.y
    IN  MapSeq(els, LAMBDA el :
            IF Includes(d.ids, el.id) /\ ~IsLocked(el)
            THEN [el EXCEPT !.x = clamp(el.x + offsetX, 0, 100),
                            !.y = clamp(el.y + offsetY, 0, 100)]
            ELSE el)

\* the list onElementPointerMove records
Dragged(d, p) == MoveAll(elements, d, p)

(***************************************************************************)
(* Pointer events.  One mouse-like pointer: a pointer-down is followed by  *)
(* one pointer-up; an event is delivered to the capturing element, else to *)
(* what is under the pointer, and bubbles from an element (or its resize   *)
(* handle) to the stage unless a handler stops it.                         *)
(***************************************************************************)
STAGE == 0

MoveCap == 2    \* pointer-moves of a gesture are counted up to "2 or more"

NoCapture == [down |-> TRUE, capture |-> NULL]
Released  == [down |-> FALSE, capture |-> NULL]
CapturedBy(id) == [down |-> TRUE, capture |-> [id |-> id]]

Targets ==
    IF pointer.capture # NULL /\ Find(elements, pointer.capture.id) # NULL
    THEN {pointer.capture.id}
    ELSE IdSet(elements) \cup {STAGE}

NewGesture(kind, ids) ==
    [phase |-> "active", kind |-> kind, start |-> elements,
     pushes0 |-> pushes, moves |-> 0, clean |-> TRUE, ids |-> ids]

\* pointer-down on the stage background
PointerDownStage(p, shiftKey) ==
    /\ steps > 0
    /\ ~pointer.down
    /\ ~ModalOpen
    /\ onStagePointerDown(p, shiftKey)
    /\ pointer' = NoCapture
    /\ Evt(IF activeTool \in PlacementTools /\ ghost # NULL THEN "add"
                                                            ELSE "stageDown")
    /\ UNCHANGED <<clipboard, chosenIconId, refVars, contextMenu, prefVars, bgVars>>
    /\ AutoSaveEffect

\* onElementPointerDown(e, id)
PointerDownElement(id, p, multi) ==
    /\ steps > 0
    /\ ~pointer.down
    /\ ~ModalOpen
    /\ id \in IdSet(elements)
    /\ Keep
    /\ selectedIds' = IF multi THEN toggleSelection(id) ELSE <<id>>
    /\ IF DragAnchor(id) = NULL
       THEN /\ UNCHANGED dragRef
            /\ pointer' = NoCapture
            /\ Evt("elementDown")
       ELSE /\ dragRef' = [ids |-> MovableIds(id),
                           dx |-> p.x - DragAnchor(id).x,
                           dy |-> p.y - DragAnchor(id).y]
            /\ pointer' = CapturedBy(id)
            /\ EvtG("elementDown", NewGesture("drag", MovableIds(id)))
    /\ UNCHANGED <<clipboard, toolVars, drawVars, resizeRef, menuVars, prefVars,
                   bgVars, uidNext>>
    /\ AutoSaveEffect

ResizableIds(id) ==
    SelectSeq(IF Includes(selectedIds, id) THEN selectedIds ELSE <<id>>,
              LAMBDA rid : Find(elements, rid) # NULL
                           /\ ~IsLocked(Find(elements, rid)))

\* onPointerDown of the resize handle of element id (rendered when the
\* element is selected and not locked)
PointerDownHandle(id, p) ==
    /\ steps > 0
    /\ ~pointer.down
    /\ ~ModalOpen
    /\ Find(elements, id) # NULL
    /\ Includes(selectedIds, id)
    /\ ~IsLocked(Find(elements, id))
    /\ Keep
    /\ IF Find(elements, id).kind = "pressure"
       THEN /\ resizeRef' = [mode |-> "pressure", ids |-> selectedIds,
                             anchorId |-> id]
            /\ EvtG("handleDown", NewGesture("resize", <<id>>))
       ELSE /\ resizeRef' =
                [mode |-> "linear", ids |-> ResizableIds(id), anchorId |-> id,
                 startXPct |-> p.x, startYPct |-> p.y,
                 initialSizes |->
                    [rid \in {ResizableIds(id)[i] : i \in 1..Len(ResizableIds(id))}
                        |-> Metric(Find(elements, rid))]]
            /\ EvtG("handleDown", NewGesture("resize", ResizableIds(id)))
    /\ pointer' = CapturedBy(id)
    /\ UNCHANGED <<selVars, toolVars, drawVars, dragRef, menuVars, prefVars,
                   bgVars, uidNext>>
    /\ AutoSaveEffect

MovedGesture ==
    IF GestActive THEN [gest EXCEPT !.moves = Min(@ + 1, MoveCap)] ELSE NULL

\* pointer-move delivered to target: onElementPointerMove(e, id) and, when it
\* does not stop the event, onStagePointerMove(e)
PointerMove(target, p) ==
    /\ steps > 0
    /\ target \in Targets
    /\ pointer.capture = NULL => ~ModalOpen
    /\ IF target # STAGE /\ dragRef # NULL /\ Includes(dragRef.ids, target)
       THEN /\ IF Find(elements, dragRef.ids[1]) = NULL
               THEN Keep
               ELSE Record(Dragged(dragRef, p))
            /\ UNCHANGED <<ghost, drawingZone, selectionBox, lastLabelFontSize,
                           lastTempFontSize, lastWindFontSize>>
       ELSE onStagePointerMove(p)
    /\ EvtG("move", MovedGesture)
    /\ UNCHANGED <<selVars, activeTool, chosenIconId, isDrawingSelection,
                   refVars, menuVars, customIcons, bgVars, uidNext, pointer>>
    /\ AutoSaveEffect

\* pointer-up delivered to target: onElementPointerUp(e, id), then
\* onStagePointerUp(e)
PointerUp(target) ==
    /\ steps > 0
    /\ pointer.down
    /\ target \in Targets
    /\ dragRef' = IF target # STAGE /\ dragRef # NULL
                     /\ Includes(dragRef.ids, target)
                  THEN NULL ELSE dragRef
    /\ onStagePointerUp
    /\ pointer' = Released
    /\ EvtG("up", IF GestActive THEN [gest EXCEPT !.phase = "done"] ELSE NULL)
    /\ UNCHANGED <<clipboard, chosenIconId, ghost, menuVars, prefVars, bgVars>>
    /\ AutoSaveEffect

\* the button is released outside the stage
PointerUpOutside ==
    /\ steps > 0
    /\ pointer.down
    /\ pointer.capture = NULL
    /\ Keep
    /\ pointer' = Released
    /\ Evt("ui")
    /\ UNCHANGED <<selVars, toolVars, drawVars, refVars, menuVars, prefVars,
                   bgVars, uidNext>>
    /\ AutoSaveEffect

\* onStagePointerLeave
StagePointerLeave ==
    /\ steps > 0
    /\ pointer.capture = NULL
    /\ ~ModalOpen
    /\ Keep
    /\ ghost' = NULL
    /\ drawingZone' = NULL
    /\ activeTool' = IF drawingZone # NULL THEN "select" ELSE activeTool
    /\ isDrawingSelection' = FALSE
    /\ selectionBox' = IF isDrawingSelection THEN NULL ELSE selectionBox
    /\ Evt("ui")
    /\ UNCHANGED <<selVars, chosenIconId, refVars, menuVars, prefVars, bgVars,
                   uidNext, pointer>>
    /\ AutoSaveEffect

(***************************************************************************)
(* Palette and keyboard                                                    *)
(***************************************************************************)
SetActiveTool(tool) ==
    /\ steps > 0
    /\ ~ModalOpen
    /\ activeTool' = tool
    /\ Keep
    /\ Evt("ui")
    /\ UNCHANGED <<selVars, chosenIconId, ghost, drawVars, refVars, menuVars,
                   prefVars, bgVars, uidNext, pointer>>
    /\ AutoSaveEffect

\* an icon button of the palette
ChooseIcon(ic) ==
    /\ steps > 0
    /\ ~ModalOpen
    /\ chosenIconId' = ic
    /\ activeTool' = "add-icon"
    /\ Keep
    /\ Evt("ui")
    /\ UNCHANGED <<selVars, ghost, drawVars, refVars, menuVars, prefVars,
                   bgVars, uidNext, pointer>>
    /\ AutoSaveEffect

\* keydown Ctrl/Cmd+Z that also empties the selection
KeyUndoClearingSelection(isInInput) ==
    /\ steps > 0
    /\ IF ~isInInput THEN Undo ELSE Keep
    /\ Evt(IF ~isInInput THEN "undo" ELSE "ui")
    /\ selectedIds' = IF ~isInInput THEN <<>> ELSE selectedIds
    /\ UNCHANGED <<clipboard, toolVars, drawVars, refVars, menuVars, prefVars,
                   bgVars, uidNext, pointer>>
    /\ AutoSaveEffect

\* keydown Ctrl/Cmd+Z
KeyUndo(isInInput) ==
    /\ steps > 0
    /\ IF ~isInInput THEN Undo ELSE Keep
    /\ Evt(IF ~isInInput THEN "undo" ELSE "ui")
    /\ UNCHANGED editorVars
    /\ AutoSaveEffect

\* keydown Delete
KeyDelete(isInInput) ==
    /\ steps > 0
    /\ IF Len(selectedIds) > 0 /\ ~isInInput
       THEN deleteSelected
       ELSE Keep /\ UNCHANGED selectedIds
    /\ Evt(IF Len(selectedIds) > 0 /\ ~isInInput THEN "delete" ELSE "ui")
    /\ UNCHANGED <<clipboard, toolVars, drawVars, refVars, menuVars, prefVars,
                   bgVars, uidNext, pointer>>
    /\ AutoSaveEffect

\* keydown Ctrl/Cmd+C
KeyCopy(isInInput) ==
    /\ steps > 0
    /\ IF Len(selectedIds) > 0 /\ ~isInInput
       THEN copySelected
       ELSE UNCHANGED clipboard
    /\ Keep
    /\ Evt("ui")
    /\ UNCHANGED <<selectedIds, toolVars, drawVars, refVars, menuVars, prefVars,
                   bgVars, uidNext, pointer>>
    /\ AutoSaveEffect

\* keydown Ctrl/Cmd+V
KeyPaste(isInInput) ==
    /\ steps > 0
    /\ IF Len(clipboard) > 0 /\ ~isInInput
       THEN pasteDefault
       ELSE Keep /\ UNCHANGED <<selectedIds, uidNext>>
    /\ Evt(IF Len(clipboard) > 0 /\ ~isInInput THEN "paste" ELSE "ui")
    /\ UNCHANGED <<clipboard, toolVars, drawVars, refVars, menuVars, prefVars,
                   bgVars, pointer>>
    /\ AutoSaveEffect

\* keydown Escape: both keydown listeners
KeyEscape ==
    /\ steps > 0
    /\ editModal' = NULL
    /\ contextMenu' = IF editModal = NULL THEN NULL ELSE contextMenu
    /\ ghost' = IF activeTool \in PlacementTools THEN NULL ELSE ghost
    /\ activeTool' = IF activeTool \in PlacementTools THEN "select" ELSE activeTool
    /\ Keep
    /\ Evt(IF activeTool \in PlacementTools THEN "cancel" ELSE "escape")
    /\ UNCHANGED <<selVars, chosenIconId, drawVars, refVars, prefVars, bgVars,
                   uidNext, pointer>>
    /\ AutoSaveEffect

(***************************************************************************)
(* Context menu                                                            *)
(***************************************************************************)

\* onStageContextMenu without the placement test: the menu opens whatever
\* the tool is
StageContextMenuAlwaysOpens(p) ==
    /\ steps > 0
    /\ ~ModalOpen
    /\ Keep
    /\ contextMenu' = [target |-> "stage", targetIds |-> <<>>,
                       stageX |-> p.x, stageY |-> p.y]
    /\ UNCHANGED <<ghost, activeTool>>
    /\ Evt("ui")
    /\ UNCHANGED <<selVars, chosenIconId, drawVars, refVars, editModal,
                   prefVars, bgVars, uidNext, pointer>>
    /\ AutoSaveEffect

\* onStageContextMenu
StageContextMenu(p) ==
    /\ steps > 0
    /\ ~ModalOpen
    /\ Keep
    /\ IF activeTool \in PlacementTools \cup ZoneTools
       THEN /\ ghost' = NULL
            /\ activeTool' = "select"
            /\ UNCHANGED contextMenu
       ELSE /\ contextMenu' = [target |-> "stage", targetIds |-> <<>>,
                               stageX |-> p.x, stageY |-> p.y]
            /\ UNCHANGED <<ghost, activeTool>>
    /\ Evt(IF activeTool \in PlacementTools \cup ZoneTools THEN "cancel"
                                                           ELSE "ui")
    /\ UNCHANGED <<selVars, chosenIconId, drawVars, refVars, editModal,
                   prefVars, bgVars, uidNext, pointer>>
    /\ AutoSaveEffect

\* onElementContextMenu
ElementContextMenu(id, p) ==
    /\ steps > 0
    /\ ~ModalOpen
    /\ id \in IdSet(elements)
    /\ Keep
    /\ selectedIds' = IF Includes(selectedIds, id) THEN selectedIds ELSE <<id>>
    /\ contextMenu' = [target |-> "item",
                       targetIds |-> IF Includes(selectedIds, id)
                                     THEN selectedIds ELSE <<id>>,
                       stageX |-> p.x, stageY |-> p.y]
    /\ Evt("ui")
    /\ UNCHANGED <<clipboard, toolVars, drawVars, refVars, editModal, prefVars,
                   bgVars, uidNext, pointer>>
    /\ AutoSaveEffect

ItemMenu  == contextMenu # NULL /\ contextMenu.target = "item"
StageMenu == contextMenu # NULL /\ contextMenu.target = "stage"

AllPressure(ids) ==
    \A i \in 1..Len(ids) :
        Find(elements, ids[i]) # NULL /\ Find(elements, ids[i]).kind = "pressure"

\* Verrouiller / Déverrouiller
MenuLock ==
    /\ steps > 0
    /\ ItemMenu
    /\ setLocked(contextMenu.targetIds,
                 ~\E i \in 1..Len(contextMenu.targetIds) :
                      IsLocked(Find(elements, contextMenu.targetIds[i])))
    /\ contextMenu' = NULL
    /\ Evt("lock")
    /\ UNCHANGED <<selVars, toolVars, drawVars, refVars, editModal, prefVars,
                   bgVars, uidNext, pointer>>
    /\ AutoSaveEffect

\* Éditer
MenuEdit ==
    /\ steps > 0
    /\ ItemMenu
    /\ ~AllPressure(contextMenu.targetIds)
    /\ Keep
    /\ editModal' = IF Len(contextMenu.targetIds) > 0
                    THEN [elementId |-> contextMenu.targetIds[1]]
                    ELSE editModal
    /\ contextMenu' = NULL
    /\ Evt("ui")
    /\ UNCHANGED <<selVars, toolVars, drawVars, refVars, prefVars, bgVars,
                   uidNext, pointer>>
    /\ AutoSaveEffect

\* Copier
MenuCopy ==
    /\ steps > 0
    /\ ItemMenu
    /\ copySelected
    /\ Keep
    /\ contextMenu' = NULL
    /\ Evt("ui")
    /\ UNCHANGED <<selectedIds, toolVars, drawVars, refVars, editModal,
                   prefVars, bgVars, uidNext, pointer>>
    /\ AutoSaveEffect

\* Dupliquer
MenuDuplicate ==
    /\ steps > 0
    /\ ItemMenu
    /\ duplicateSelected
    /\ contextMenu' = NULL
    /\ Evt(IF Len(selectedIds) = 0 THEN "ui" ELSE "duplicate")
    /\ UNCHANGED <<clipboard, toolVars, drawVars, refVars, editModal, prefVars,
                   bgVars, pointer>>
    /\ AutoSaveEffect

\* Nord / Sud
MenuHemisphere(h) ==
    /\ steps > 0
    /\ ItemMenu
    /\ Len(contextMenu.targetIds) > 0
    /\ AllPressure(contextMenu.targetIds)
    /\ Record(MapSeq(elements, LAMBDA el :
            IF Includes(contextMenu.targetIds, el.id) /\ el.kind = "pressure"
            THEN [el EXCEPT !.hemisphere = h] ELSE el))
    /\ contextMenu' = NULL
    /\ Evt("hemisphere")
    /\ UNCHANGED <<selVars, toolVars, drawVars, refVars, editModal, prefVars,
                   bgVars, uidNext, pointer>>
    /\ AutoSaveEffect

\* Coller ici / Coller (n)
MenuPaste ==
    /\ steps > 0
    /\ contextMenu # NULL
    /\ Len(clipboard) > 0
    /\ pasteAt(contextMenu.stageX, contextMenu.stageY)
    /\ contextMenu' = NULL
    /\ Evt("paste")
    /\ UNCHANGED <<clipboard, toolVars, drawVars, refVars, editModal, prefVars,
                   bgVars, pointer>>
    /\ AutoSaveEffect

\* Supprimer
MenuDelete ==
    /\ steps > 0
    /\ ItemMenu
    /\ deleteSelected
    /\ contextMenu' = NULL
    /\ Evt(IF Len(selectedIds) = 0 THEN "ui" ELSE "delete")
    /\ UNCHANGED <<clipboard, toolVars, drawVars, refVars, editModal, prefVars,
                   bgVars, uidNext, pointer>>
    /\ AutoSaveEffect

\* Icône météo / Nom de ville / Température / Force du vent
MenuAdd(tool) ==
    /\ steps > 0
    /\ StageMenu
    /\ addAtPct(tool, contextMenu.stageX, contextMenu.stageY)
    /\ contextMenu' = NULL
    /\ Evt("add")
    /\ UNCHANGED <<clipboard, toolVars, drawVars, refVars, prefVars, bgVars,
                   pointer>>
    /\ AutoSaveEffect

\* Anticyclone (outil) / Dépression (outil)
MenuTool(tool) ==
    /\ steps > 0
    /\ StageMenu
    /\ Keep
    /\ activeTool' = tool
    /\ contextMenu' = NULL
    /\ Evt("menuTool")
    /\ UNCHANGED <<selVars, chosenIconId, ghost, drawVars, refVars, editModal,
                   prefVars, bgVars, uidNext, pointer>>
    /\ AutoSaveEffect

\* a click outside the menu
CloseContextMenu ==
    /\ steps > 0
    /\ contextMenu # NULL
    /\ Keep
    /\ contextMenu' = NULL
    /\ Evt("ui")
    /\ UNCHANGED <<selVars, toolVars, drawVars, refVars, editModal, prefVars,
                   bgVars, uidNext, pointer>>
    /\ AutoSaveEffect

(***************************************************************************)
(* Toolbar, property panel, project import                                 *)
(***************************************************************************)
\* the Supprimer button (disabled while nothing is selected)
DeleteButton ==
    /\ steps > 0
    /\ ~ModalOpen
    /\ Len(selectedIds) > 0
    /\ deleteSelected
    /\ Evt("deleteButton")
    /\ UNCHANGED <<clipboard, toolVars, drawVars, refVars, menuVars, prefVars,
                   bgVars, uidNext, pointer>>
    /\ AutoSaveEffect

\* resetAllElements (button disabled while the document is empty)
ResetAll(confirmed) ==
    /\ steps > 0
    /\ ~ModalOpen
    /\ Len(elements) > 0
    /\ IF confirmed
       THEN Record(<<>>) /\ selectedIds' = <<>>
       ELSE Keep /\ UNCHANGED selectedIds
    /\ Evt(IF confirmed THEN "reset" ELSE "ui")
    /\ UNCHANGED <<clipboard, toolVars, drawVars, refVars, menuVars, prefVars,
                   bgVars, uidNext, pointer>>
    /\ AutoSaveEffect

Merge(e, patch) ==
    [f \in DOMAIN e \cup DOMAIN patch |->
        IF f \in DOMAIN patch THEN patch[f] ELSE e[f]]

\* updateSelected(patch)
updateSelected(patch) ==
    IF Len(selectedIds) # 1
    THEN Keep
    ELSE IF Find(elements, selectedIds[1]) = NULL
            \/ IsLocked(Find(elements, selectedIds[1]))
    THEN Keep
    ELSE Record(MapSeq(elements, LAMBDA e :
            IF e.id = selectedIds[1] THEN Merge(e, patch) ELSE e))

\* `selected`: the single selected element, or NULL
selected ==
    IF Len(selectedIds) = 1 THEN Find(elements, selectedIds[1]) ELSE NULL

\* the patches the property panel sends for an element of the given kind
PanelPatches(kind) ==
    CASE kind = "icon"     -> {[size |-> 24]}
      [] kind = "label"    -> {[text |-> "Paris"]}
      [] kind = "temp"     -> {[value |-> "30"]}
      [] kind = "wind"     -> {[speedKmh |-> 80]}
      [] kind = "pressure" -> {[radius |-> 2000], [hemisphere |-> "South"]}

Edits(patch) ==
    Len(selectedIds) = 1 /\ selected # NULL /\ ~IsLocked(selected)

\* an input of the property panel
PanelEdit(patch) ==
    /\ steps > 0
    /\ ~ModalOpen
    /\ selected # NULL
    /\ patch \in PanelPatches(selected.kind)
    /\ updateSelected(patch)
    /\ Evt(IF Edits(patch) THEN "edit" ELSE "ui")
    /\ UNCHANGED editorVars
    /\ AutoSaveEffect

\* handleLabelFontSizeChange / handleTempFontSizeChange / handleWindFontSizeChange
FontSizeChange(value) ==
    /\ steps > 0
    /\ ~ModalOpen
    /\ selected # NULL
    /\ selected.kind \in {"label", "temp", "wind"}
    /\ lastLabelFontSize' = IF selected.kind = "label"
                            THEN clamp(value, 10, 80) ELSE lastLabelFontSize
    /\ lastTempFontSize' = IF selected.kind = "temp"
                           THEN clamp(value, 10, 80) ELSE lastTempFontSize
    /\ lastWindFontSize' = IF selected.kind = "wind"
                           THEN clamp(value, 10, 80) ELSE lastWindFontSize
    /\ updateSelected([fontSize |-> clamp(value, 10, 80)])
    /\ Evt(IF Edits(value) THEN "edit" ELSE "ui")
    /\ UNCHANGED <<selVars, toolVars, drawVars, refVars, menuVars, customIcons,
                   bgVars, uidNext, pointer>>
    /\ AutoSaveEffect

\* the edit modal: a text, value or speed input
ModalPatches(kind) ==
    CASE kind = "label" -> {[text |-> "Lyon"]}
      [] kind = "temp"  -> {[value |-> "12"]}
      [] kind = "wind"  -> {[speedKmh |-> 30]}
      [] OTHER          -> {}

ModalEdit(patch) ==
    /\ steps > 0
    /\ ModalOpen
    /\ patch \in ModalPatches(Find(elements, editModal.elementId).kind)
    /\ updateSelected(patch)
    /\ Evt(IF Edits(patch) THEN "edit" ELSE "ui")
    /\ UNCHANGED editorVars
    /\ AutoSaveEffect

\* getAvailableIcons()
getAvailableIcons == ICONS \o customIcons.array

\* the edit modal: an emoji of the picker
ModalPickEmoji(emoji) ==
    /\ steps > 0
    /\ ModalOpen
    /\ Find(elements, editModal.elementId).kind = "icon"
    /\ LET existing == SelectSeq(getAvailableIcons, LAMBDA i : i.glyph = emoji)
       IN  IF Len(existing) > 0
           THEN /\ updateSelected([iconId |-> existing[1].id])
                /\ UNCHANGED <<customIcons, uidNext>>
           ELSE /\ Fresh(1)
                /\ customIcons' = Array(Append(customIcons.array,
                        [id |-> ToString(uidNext), glyph |-> emoji, label |-> emoji]))
                /\ updateSelected([iconId |-> ToString(uidNext)])
                /\ uidNext' = uidNext + 1
    /\ Evt(IF Edits(emoji) THEN "edit" ELSE "ui")
    /\ UNCHANGED <<selVars, toolVars, drawVars, refVars, menuVars,
                   lastLabelFontSize, lastTempFontSize, lastWindFontSize,
                   bgVars, pointer>>
    /\ AutoSaveEffect

\* the overlay, the close button or Fermer
CloseModal ==
    /\ steps > 0
    /\ ModalOpen
    /\ Keep
    /\ editModal' = NULL
    /\ Evt("ui")
    /\ UNCHANGED <<selVars, toolVars, drawVars, refVars, contextMenu, prefVars,
                   bgVars, uidNext, pointer>>
    /\ AutoSaveEffect

Get(d, f) == IF f \in DOMAIN d THEN d[f] ELSE UNDEF

\* importProjectFromJson without the test of the version tag
importProjectFromJsonAnyVersion(file) ==
    IF ~file.parsed THEN NULL
    ELSE IF \/ "elements" \notin DOMAIN file.data
            \/ ~isArray(file.data.elements)
    THEN NULL
    ELSE [file.data EXCEPT !.elements = @.array]

\* importProjectFromJson handing the elements over in reverse order
importProjectFromJsonReversed(file) ==
    IF ~file.parsed THEN NULL
    ELSE IF \/ "version" \notin DOMAIN file.data
            \/ "elements" \notin DOMAIN file.data
            \/ file.data.version = 0
            \/ ~isArray(file.data.elements)
    THEN NULL
    ELSE [file.data EXCEPT !.elements =
            [i \in 1..Len(@.array) |-> @.array[Len(@.array) + 1 - i]]]

\* importProjectFromJson: the parsed data, or NULL
importProjectFromJson(file) ==
    IF ~file.parsed THEN NULL
    ELSE IF \/ "version" \notin DOMAIN file.data
            \/ "elements" \notin DOMAIN file.data
            \/ file.data.version = 0
            \/ ~isArray(file.data.elements)
    THEN NULL
    ELSE [file.data EXCEPT !.elements = @.array]

\* the project files offered to the import
ProjectFiles ==
    { [parsed |-> FALSE],
      [parsed |-> TRUE,
       data |-> [bgId |-> "grid", bgUrl |-> "grid-src", aspectRatio |-> "16 / 9",
                 elements |-> Array(<<IconElement(8, "sun", 50, 50)>>),
                 customIcons |-> Array(<<>>)]],
      [parsed |-> TRUE,
       data |-> [version |-> 1, bgId |-> "france", bgUrl |-> "france-src",
                 aspectRatio |-> "4 / 3",
                 elements |-> Array(<<IconElement(8, "sun", 50, 50),
                                      WindElement(9, 0, 50, 20)>>),
                 customIcons |-> Array(<<[id |-> "c1", label |-> "Tornade",
                                          glyph |-> "tornado-glyph"]>>)]],
      [parsed |-> TRUE,
       data |-> [version |-> 1, bgId |-> "grid", bgUrl |-> "grid-src",
                 aspectRatio |-> "16 / 9",
                 elements |-> Array(<<IconElement(8, "sun", 150, 50),
                                      IconElement(8, "cloud", 20, 50)>>),
                 customIcons |-> Array(<<>>)]],
      [parsed |-> TRUE,
       data |-> [version |-> 1, bgId |-> "france", bgUrl |-> "france-src",
                 aspectRatio |-> "4 / 3", customIcons |-> Array(<<>>)]],
      [parsed |-> TRUE,
       data |-> [version |-> 1, bgId |-> "france", bgUrl |-> "france-src",
                 aspectRatio |-> "4 / 3", elements |-> NOT_ARRAY,
                 customIcons |-> Array(<<>>)]] }

\* project files with a version tag and an element list that lack the
\* customIcons field
IncompleteProjectFiles ==
    { [parsed |-> TRUE,
       data |-> [version |-> 1, bgId |-> "europe", bgUrl |-> "europe-src",
                 aspectRatio |-> "4 / 3",
                 elements |-> Array(<<IconElement(8, "sun", 50, 50)>>)]] }

\* Date.now() at the export
Timestamps == {1, 2}

\* JSON.stringify of the project data: a member whose value is undefined is
\* left out, a list becomes a JSON array
stringify(data) ==
    LET members == IF data.customIcons = UNDEF
                   THEN DOMAIN data \ {"customIcons"}
                   ELSE DOMAIN data
    IN  [f \in members |->
            IF f = "elements" THEN Array(data.elements) ELSE data[f]]

\* exportProject that leaves the custom icons out of the project data
exportProjectWithoutIcons(now) ==
    [parsed |-> TRUE,
     data |-> stringify([version |-> 1, timestamp |-> now, bgId |-> bgId,
                         bgUrl |-> bgUrl, aspectRatio |-> aspectRatio,
                         elements |-> elements, customIcons |-> UNDEF])]

\* exportProject: the text of the downloaded file, as JSON.parse reads it
exportProject(now) ==
    [parsed |-> TRUE,
     data |-> stringify([version |-> 1, timestamp |-> now, bgId |-> bgId,
                         bgUrl |-> bgUrl, aspectRatio |-> aspectRatio,
                         elements |-> elements, customIcons |-> customIcons])]

\* handleImportFile, reader.onload
ImportFile(file) ==
    /\ steps > 0
    /\ ~ModalOpen
    /\ IF importProjectFromJson(file) = NULL
       THEN /\ Keep
            /\ UNCHANGED <<bgVars, customIcons, selVars, tainted>>
       ELSE LET imported == importProjectFromJson(file)
            IN  /\ bgId' = Get(imported, "bgId")
                /\ bgUrl' = Get(imported, "bgUrl")
                /\ aspectRatio' = Get(imported, "aspectRatio")
                /\ UNCHANGED <<imageLoads, bgRequested>>
                /\ Record(imported.elements)
                /\ customIcons' = Get(imported, "customIcons")
                /\ selectedIds' = <<>>
                /\ clipboard' = <<>>
                /\ tainted' = TRUE
    /\ Step
    /\ Observe(IF importProjectFromJson(file) = NULL THEN "importRejected"
                                                    ELSE "import")
    /\ gest' = IF GestActive THEN [gest EXCEPT !.clean = FALSE] ELSE NULL
    /\ UNCHANGED storeObs
    /\ UNCHANGED <<toolVars, drawVars, refVars, menuVars, lastLabelFontSize,
                   lastTempFontSize, lastWindFontSize, uidNext, pointer>>
    /\ AutoSaveEffect

(***************************************************************************)
(* The editor                                                              *)
(***************************************************************************)
Next ==
    \/ \E p \in PointerPts, shiftKey \in BOOLEAN : PointerDownStage(p, shiftKey)
    \/ \E id \in IdSet(elements), multi \in BOOLEAN :
            PointerDownElement(id, HitPt(id), multi)
    \/ \E id \in IdSet(elements) : PointerDownHandle(id, HitPt(id))
    \/ \E t \in Targets, p \in PointerPts : PointerMove(t, p)
    \/ \E t \in Targets : PointerUp(t)
    \/ PointerUpOutside
    \/ StagePointerLeave
    \/ \E tool \in Tools : SetActiveTool(tool)
    \/ \E ic \in IconIds : ChooseIcon(ic)
    \/ \E isInInput \in BOOLEAN : KeyUndo(isInInput)
    \/ \E isInInput \in BOOLEAN : KeyDelete(isInInput)
    \/ \E isInInput \in BOOLEAN : KeyCopy(isInInput)
    \/ \E isInInput \in BOOLEAN : KeyPaste(isInInput)
    \/ KeyEscape
    \/ \E p \in PointerPts : StageContextMenu(p)
    \/ \E id \in IdSet(elements) : ElementContextMenu(id, HitPt(id))
    \/ MenuLock
    \/ MenuEdit
    \/ MenuCopy
    \/ MenuDuplicate
    \/ \E h \in {"North", "South"} : MenuHemisphere(h)
    \/ MenuPaste
    \/ MenuDelete
    \/ \E tool \in PlacementTools : MenuAdd(tool)
    \/ \E tool \in ZoneTools : MenuTool(tool)
    \/ CloseContextMenu
    \/ DeleteButton
    \/ \E confirmed \in BOOLEAN : ResetAll(confirmed)
    \/ \E patch \in UNION {PanelPatches(k) : k \in {"icon", "label", "temp", "wind", "pressure"}} :
            PanelEdit(patch)
    \/ \E value \in {5, 30} : FontSizeChange(value)
    \/ \E patch \in UNION {ModalPatches(k) : k \in {"label", "temp", "wind"}} :
            ModalEdit(patch)
    \/ \E emoji \in EMOJI_PICKER : ModalPickEmoji(emoji)
    \/ CloseModal
    \/ \E file \in ProjectFiles : ImportFile(file)

Spec == Init /\ [][Next]_vars

(***************************************************************************)
(* The editor driven by the pointer and Ctrl+Z alone, for longer runs      *)
(***************************************************************************)
InitGesture ==
    /\ elements \in SavedGestureProjects
    /\ Len(elements) > 0
    /\ historyRef = <<elements>>
    /\ historyIndexRef = 0
    /\ log = <<>>
    /\ nextVal = 0
    /\ free = 0
    /\ undoRun = 0
    /\ lastOp = "init"
    /\ pre = elements
    /\ preIdx = 0
    /\ pushes = 0
    /\ gest = NULL
    /\ tainted = FALSE
    /\ steps = MaxGestureSteps
    /\ EditorDefaults
    /\ uidNext = Len(elements) + 1

NextGesture ==
    \/ \E p \in GesturePts : PointerDownStage(p, FALSE)
    \/ \E id \in IdSet(elements), multi \in BOOLEAN :
            PointerDownElement(id, HitPt(id), multi)
    \/ \E id \in IdSet(elements) : PointerDownHandle(id, HitPt(id))
    \/ \E t \in Targets, p \in GesturePts : PointerMove(t, p)
    \/ \E t \in Targets : PointerUp(t)
    \/ KeyUndo(FALSE)
    \/ \E tool \in Tools : SetActiveTool(tool)

SpecGesture == InitGesture /\ [][NextGesture]_vars

(***************************************************************************)
(* Properties of the editor                                                *)
(***************************************************************************)
\* the element list one undo would give in the current state
AfterUndo == Undone(historyRef, historyIndexRef, elements).state

\* the operations that record a structural change
StructuralOps ==
    {"add", "delete", "deleteButton", "duplicate", "paste", "edit", "lock"}

\* C4: after a history-recording structural operation (add, delete,
\* duplicate, paste, property edit, lock/unlock) applied when the live list
\* equals the snapshot at the cursor, one undo gives back exactly the element
\* list from before the operation.
C4_UndoRestoresBeforeStructuralOp ==
    (lastOp \in StructuralOps /\ pre = historyRef[preIdx + 1])
        => AfterUndo = pre

\* C4 witness: an icon has just been added to an empty document, and one
\* undo would give the empty list again.
C4_Witness ==
    /\ lastOp = "add"
    /\ pre = <<>>
    /\ Len(elements) = 1
    /\ elements[1].kind = "icon"
    /\ AfterUndo = <<>>

DragDone ==
    /\ gest # NULL
    /\ gest.phase = "done"
    /\ gest.kind = "drag"
    /\ gest.clean
    /\ gest.moves >= 1

ResizeDone ==
    /\ gest # NULL
    /\ gest.phase = "done"
    /\ gest.kind = "resize"
    /\ gest.clean

SamePlace(a, b) == a # NULL /\ b # NULL /\ a.x = b.x /\ a.y = b.y

\* C5: after a completed drag (pointer-down on an element, one or more
\* pointer-moves, pointer-up) one undo puts every dragged element back where
\* it was before the pointer-down.
C5_UndoAfterDragRestoresStart ==
    DragDone =>
        \A i \in 1..Len(gest.ids) :
            SamePlace(Find(AfterUndo, gest.ids[i]), Find(gest.start, gest.ids[i]))

\* C6: a completed drag adds exactly one snapshot to the history, however
\* many pointer-moves it had.
C6_DragAddsOneSnapshot ==
    DragDone => pushes - gest.pushes0 = 1

\* C7: a resize gesture (pointer-down on a handle, any number of moves,
\* pointer-up) records no snapshot before the pointer-up and exactly one at
\* the pointer-up, and one undo afterwards gives every resized element its
\* size metric from before the gesture.
C7_ResizeIsOneUndoStep ==
    /\ (gest # NULL /\ gest.phase = "active" /\ gest.kind = "resize" /\ gest.clean)
            => pushes = gest.pushes0
    /\ ResizeDone =>
            /\ pushes - gest.pushes0 = 1
            /\ \A i \in 1..Len(gest.ids) :
                    /\ Find(AfterUndo, gest.ids[i]) # NULL
                    /\ Metric(Find(AfterUndo, gest.ids[i]))
                            = Metric(Find(gest.start, gest.ids[i]))

\* C7 witness: a resize with at least one move has ended, the size metric of
\* a resized element differs from the one it started with, and one undo would
\* give the old one back.
C7_Witness ==
    /\ ResizeDone
    /\ gest.moves >= 1
    /\ pushes = gest.pushes0 + 1
    /\ \E i \in 1..Len(gest.ids) :
            /\ Metric(Find(elements, gest.ids[i]))
                    # Metric(Find(gest.start, gest.ids[i]))
            /\ Metric(Find(AfterUndo, gest.ids[i]))
                    = Metric(Find(gest.start, gest.ids[i]))

\* C8: the selection only holds ids of elements that are in the document.
C8_SelectionWithinDocument ==
    \A i \in 1..Len(selectedIds) : selectedIds[i] \in IdSet(elements)

\* C9: the elements of the document have pairwise distinct ids.
C9_IdsPairwiseDistinct ==
    \A i, j \in 1..Len(elements) : elements[i].id = elements[j].id => i = j

\* C10: every element has 0 <= x <= 100 and 0 <= y <= 100.
C10_CoordinatesInRange ==
    \A i \in 1..Len(elements) :
        /\ 0 <= elements[i].x /\ elements[i].x <= 100
        /\ 0 <= elements[i].y /\ elements[i].y <= 100

\* the x a pointer-move at p would give element i of `pre` without the clamp
WouldBeX(i, p) ==
    pre[i].x + (p.x - dragRef.dx - Find(pre, dragRef.ids[1]).x)

MovedTo(p) ==
    /\ lastOp = "move"
    /\ dragRef # NULL
    /\ Find(pre, dragRef.ids[1]) # NULL
    /\ elements = MoveAll(pre, dragRef, p)

\* C10 witness: a pointer-move of a drag that would put an element at x = 150
\* has left it at x = 100.
C10_Witness ==
    \E p \in GesturePts, i \in 1..Len(pre) :
        /\ MovedTo(p)
        /\ Includes(dragRef.ids, pre[i].id)
        /\ WouldBeX(i, p) = 150
        /\ elements[i].x = 100

\* a pointer-move of a drag that would put an element at x = -20 has left it
\* at x = 0
C10_WitnessLow ==
    \E p \in GesturePts, i \in 1..Len(pre) :
        /\ MovedTo(p)
        /\ Includes(dragRef.ids, pre[i].id)
        /\ WouldBeX(i, p) = -20
        /\ elements[i].x = 0

\* the same range under the full editor, for documents that were not imported
C10_InRangeUnlessImported == tainted \/ C10_CoordinatesInRange

\* a first pointer-move at p, delivered to t, of a drag made of the
\* pointer-down and pointer-moves only
FirstDragMove(t, p) ==
    /\ GestActive
    /\ gest.kind = "drag"
    /\ gest.clean
    /\ gest.moves = 0
    /\ pointer.capture # NULL
    /\ Find(elements, pointer.capture.id) # NULL
    /\ PointerMove(t, p)

\* element i after the step: a locked element keeps its place, a dragged
\* (unlocked, selected) one has moved by the offset of p from the place of
\* the pointer-down, clamped
MovedByPointer(i, p) ==
    LET e == elements[i]
        pressed == Find(elements, pointer.capture.id)
    IN  IF IsLocked(e)
        THEN elements'[i].x = e.x /\ elements'[i].y = e.y
        ELSE Includes(gest.ids, e.id) =>
                /\ elements'[i].x = clamp(e.x + (p.x - pressed.x), 0, 100)
                /\ elements'[i].y = clamp(e.y + (p.y - pressed.y), 0, 100)

\* C11: in a drag of a selection, whichever element of the selection was
\* pressed, a pointer-move leaves the x and y of every locked element
\* unchanged and moves every unlocked selected element by the pointer's
\* offset, clamped to [0,100].
C11_DragMovesUnlockedOnly ==
    [][\A t \in IdSet(elements), p \in GesturePts :
            FirstDragMove(t, p) =>
                /\ Len(elements') = Len(elements)
                /\ \A i \in 1..Len(elements) : MovedByPointer(i, p)]_vars

\* the same, for drags started by pressing an unlocked element
C11_HoldsWhenUnlockedPressed ==
    [][\A t \in IdSet(elements), p \in GesturePts :
            (FirstDragMove(t, p) /\ ~IsLocked(Find(elements, pointer.capture.id))) =>
                /\ Len(elements') = Len(elements)
                /\ \A i \in 1..Len(elements) : MovedByPointer(i, p)]_vars

\* a pointer-move or pointer-up (drag, resize), a property-panel edit or an
\* edit-modal edit
DragResizeOrEdit ==
    \/ \E t \in Targets, p \in GesturePts : PointerMove(t, p)
    \/ \E t \in Targets : PointerUp(t)
    \/ \E patch \in UNION {PanelPatches(k) :
                k \in {"icon", "label", "temp", "wind", "pressure"}} : PanelEdit(patch)
    \/ \E value \in {5, 30} : FontSizeChange(value)
    \/ \E patch \in UNION {ModalPatches(k) : k \in {"label", "temp", "wind"}} :
            ModalEdit(patch)
    \/ \E emoji \in EMOJI_PICKER : ModalPickEmoji(emoji)

HemisphereChange == \E h \in {"North", "South"} : MenuHemisphere(h)

\* every locked element is the same after the step
LockedKept ==
    \A i \in 1..Len(elements) :
        IsLocked(elements[i]) =>
            i <= Len(elements') /\ elements'[i] = elements[i]

AllLocked(ids) ==
    \A i \in 1..Len(ids) : IsLocked(Find(elements, ids[i]))

\* C12: a drag, resize, property-panel edit, edit-modal edit or context-menu
\* hemisphere change leaves every locked element as it was, and leaves the
\* whole element sequence unchanged when the elements it was requested on
\* are locked.
C12_LockedElementsUnaltered ==
    [][/\ (DragResizeOrEdit \/ HemisphereChange) => LockedKept
       /\ (HemisphereChange /\ AllLocked(contextMenu.targetIds))
                => elements' = elements
       /\ ((\E patch \in UNION {PanelPatches(k) :
                    k \in {"icon", "label", "temp", "wind", "pressure"}} :
                        PanelEdit(patch)) /\ IsLocked(selected))
                => elements' = elements]_vars

\* the same without the hemisphere buttons of the context menu, for elements
\* that were not locked in the middle of a pointer gesture
C12_HoldsExceptHemisphere ==
    [][DragResizeOrEdit =>
            \A i \in 1..Len(elements) :
                (/\ IsLocked(elements[i])
                 /\ GestActive => IsLocked(Find(gest.start, elements[i].id)))
                    => i <= Len(elements') /\ elements'[i] = elements[i]]_vars

\* a locked pressure zone has just had its hemisphere changed from the
\* context menu
C12_LockedHemisphereChanged ==
    /\ lastOp = "hemisphere"
    /\ \E i \in 1..Len(pre) :
            /\ IsLocked(pre[i])
            /\ pre[i].kind = "pressure"
            /\ elements[i].id = pre[i].id
            /\ elements[i].hemisphere # pre[i].hemisphere

\* ---------------------------------------------------------------------
\* Deleting the selection

\* the Delete / Backspace key outside a text input, the context-menu entry
\* and the toolbar button
DeleteStep == KeyDelete(FALSE) \/ MenuDelete \/ DeleteButton

\* number of selected elements among the first i elements
SelectedBefore(i) ==
    Cardinality({j \in 1..i : Includes(selectedIds, elements[j].id)})

\* C13: deleting the selection removes every selected element from the
\* document, locked ones included, leaves the selection empty, and leaves
\* all other elements unchanged and in their original relative order.
C13_DeleteRemovesSelection ==
    [][DeleteStep =>
          /\ selectedIds' = <<>>
          /\ \A j \in 1..Len(elements') :
                ~Includes(selectedIds, elements'[j].id)
          /\ Len(elements') = Len(elements) - SelectedBefore(Len(elements))
          /\ \A i \in 1..Len(elements) :
                ~Includes(selectedIds, elements[i].id)
                    => elements'[i - SelectedBefore(i)] = elements[i]]_vars

\* a locked element between two others has just been deleted and the two
\* others are left, in order
C13_Witness ==
    /\ lastOp \in {"delete", "deleteButton"}
    /\ Len(pre) = 3
    /\ IsLocked(pre[2])
    /\ elements = <<pre[1], pre[3]>>
    /\ selectedIds = <<>>

\* ---------------------------------------------------------------------
\* Marquee selection

\* v lies between a and b, whichever of the two is the smaller
Between(v, a, b) == (a <= v /\ v <= b) \/ (b <= v /\ v <= a)

\* the position of el is inside the selection box, bounds included
InSelectionBox(el) ==
    /\ Between(el.x, selectionBox.x0, selectionBox.x1)
    /\ Between(el.y, selectionBox.y0, selectionBox.y1)

\* a pointer-up that ends a marquee gesture
MarqueeEnd ==
    /\ isDrawingSelection
    /\ selectionBox # NULL
    /\ resizeRef = NULL
    /\ drawingZone = NULL
    /\ \E t \in Targets : PointerUp(t)

\* C14: ending a marquee gesture on pointer-up sets the selection to
\* exactly the ids of the elements whose (x,y) lies within the box, bounds
\* included, whatever the order of the box corners (the empty selection when
\* none match), and adds no history snapshot.
C14_MarqueeSelectsBoxContents ==
    [][MarqueeEnd =>
          /\ {selectedIds'[k] : k \in 1..Len(selectedIds')} =
                {elements[i].id : i \in {j \in 1..Len(elements) :
                                            InSelectionBox(elements[j])}}
          /\ elements' = elements
          /\ historyRef' = historyRef
          /\ historyIndexRef' = historyIndexRef
          /\ ~isDrawingSelection'
          /\ selectionBox' = NULL]_vars

\* a marquee has just ended with two of the three elements selected
C14_Witness ==
    /\ lastOp = "up"
    /\ gest = NULL
    /\ ~isDrawingSelection
    /\ Len(elements) = 3
    /\ Len(selectedIds) = 2
    /\ pushes = 0

\* a marquee in progress whose second corner is left of and above its first
\* corner, with an element strictly inside the box
C14_ReversedCorners ==
    /\ isDrawingSelection
    /\ selectionBox # NULL
    /\ selectionBox.x1 < selectionBox.x0
    /\ selectionBox.y1 < selectionBox.y0
    /\ \E i \in 1..Len(elements) : InSelectionBox(elements[i])

\* a marquee has just ended with nothing in the box
C14_EmptyMarquee ==
    /\ lastOp = "up"
    /\ gest = NULL
    /\ pre = elements
    /\ Len(elements) = 3
    /\ selectedIds = <<>>
    /\ activeTool = "select"

(***************************************************************************)
(* The editor driven by marquee selection, context menus, the clipboard    *)
(* and deletion                                                            *)
(***************************************************************************)
MaxClipboardSteps == 6   \* events handled in one run of clipboard operations

ClipboardPts == {[x |-> 0, y |-> 0], [x |-> 50, y |-> 50]}

ClipboardProjects ==
    { << IconElement(1, "sun", 10, 10), IconElement(2, "cloud", 14, 10) >>,
      << LabelElement(1, 20, 50, 20), TempElement(2, 50, 30, 20) >>,
      << IconElement(1, "sun", 20, 50),
         [LabelElement(2, 100, 50, 20) EXCEPT !.locked = TRUE],
         PressureZoneElement(3, "anticyclone", 50, 10, 1000) >> }

InitClipboard ==
    /\ elements \in ClipboardProjects
    /\ historyRef = <<elements>>
    /\ historyIndexRef = 0
    /\ log = <<>>
    /\ nextVal = 0
    /\ free = 0
    /\ undoRun = 0
    /\ lastOp = "init"
    /\ pre = elements
    /\ preIdx = 0
    /\ pushes = 0
    /\ gest = NULL
    /\ tainted = FALSE
    /\ steps = MaxClipboardSteps
    /\ EditorDefaults
    /\ uidNext = Len(elements) + 1

NextClipboard ==
    \/ \E p \in ClipboardPts : PointerDownStage(p, FALSE)
    \/ \E p \in ClipboardPts : PointerMove(STAGE, p)
    \/ PointerUp(STAGE)
    \/ KeyCopy(FALSE)
    \/ KeyPaste(FALSE)
    \/ \E p \in ClipboardPts : StageContextMenu(p)
    \/ \E id \in IdSet(elements) : ElementContextMenu(id, HitPt(id))
    \/ MenuCopy
    \/ MenuDuplicate
    \/ MenuPaste
    \/ KeyDelete(FALSE)
    \/ MenuDelete
    \/ DeleteButton
    \/ KeyUndo(FALSE)

SpecClipboard == InitClipboard /\ [][NextClipboard]_vars

\* ---------------------------------------------------------------------
\* Paste at the position of the context menu

\* the sum of the clipboard positions on one axis
SumX == Sum(clipboard, LAMBDA e : e.x)
SumY == Sum(clipboard, LAMBDA e : e.y)

\* v = clamp(anchor + (orig - centroid), 0, 100), the centroid being
\* sum / n, stated without a division
PlacedAt(v, anchor, orig, sum, n) ==
    \E u \in -200..300 :
        /\ n * u = n * anchor + n * orig - sum
        /\ v = (IF u < 0 THEN 0 ELSE IF u > 100 THEN 100 ELSE u)

\* the fields of an element other than id, x and y
SameButIdAndPlace(a, b) ==
    /\ DOMAIN a = DOMAIN b
    /\ \A f \in DOMAIN a \ {"id", "x", "y"} : a[f] = b[f]

\* C15: paste at an anchor (ax, ay) places each copy at
\* clamp(anchor + (original position - centroid of the clipboard
\* positions), 0, 100) per coordinate, with a fresh id.
C15_PasteAtAnchor ==
    [][MenuPaste =>
          LET n == Len(clipboard)
              m == Len(elements)
          IN  /\ Len(elements') = m + n
              /\ \A i \in 1..m : elements'[i] = elements[i]
              /\ \A i \in 1..n :
                    LET c == elements'[m + i]
                    IN  /\ PlacedAt(c.x, contextMenu.stageX, clipboard[i].x, SumX, n)
                        /\ PlacedAt(c.y, contextMenu.stageY, clipboard[i].y, SumY, n)
                        /\ SameButIdAndPlace(c, clipboard[i])
                        /\ c.id \notin IdSet(elements)
                        /\ \A j \in 1..n : j # i => elements'[m + j].id # c.id]_vars

\* the sun and cloud icons at (10,10) and (14,10) have just been pasted at
\* the anchor (50,50) and their copies are at (48,50) and (52,50)
C15_Witness ==
    /\ lastOp = "paste"
    /\ Len(elements) = 4
    /\ Len(clipboard) = 2
    /\ clipboard[1].x = 10 /\ clipboard[1].y = 10
    /\ clipboard[2].x = 14 /\ clipboard[2].y = 10
    /\ elements[3].x = 48 /\ elements[3].y = 50
    /\ elements[4].x = 52 /\ elements[4].y = 50
    /\ elements[3].id \notin {elements[1].id, elements[2].id, elements[4].id}

\* two elements have just been pasted at the anchor (0,0): one copy is held
\* at x = 0 and the other at y = 0
C15_WitnessClamped ==
    /\ lastOp = "paste"
    /\ Len(elements) = 4
    /\ Len(clipboard) = 2
    /\ clipboard[1].x = 20 /\ clipboard[2].x = 50
    /\ elements[3].x = 0 /\ elements[3].y = 10
    /\ elements[4].x = 15 /\ elements[4].y = 0

\* ---------------------------------------------------------------------
\* Duplicate and default paste

\* v = clamp(orig + 5, 0, 100)
OffsetBy5(v, orig) ==
    v = (IF orig + 5 < 0 THEN 0 ELSE IF orig + 5 > 100 THEN 100 ELSE orig + 5)

\* the elements of `sources` are appended as copies, which become the
\* selection, and one snapshot is added to the history
CopiesAppended(sources) ==
    LET n == Len(sources)
        m == Len(elements)
    IN  /\ Len(elements') = m + n
        /\ \A i \in 1..m : elements'[i] = elements[i]
        /\ \A i \in 1..n :
              LET c == elements'[m + i]
              IN  /\ OffsetBy5(c.x, sources[i].x)
                  /\ OffsetBy5(c.y, sources[i].y)
                  /\ SameButIdAndPlace(c, sources[i])
                  /\ c.id \notin IdSet(elements)
                  /\ \A j \in 1..n : j # i => elements'[m + j].id # c.id
        /\ selectedIds' = [i \in 1..n |-> elements'[m + i].id]
        /\ historyIndexRef' = historyIndexRef + 1
        /\ historyRef' =
              Append(SubSeq(historyRef, 1, historyIndexRef + 1), elements')

\* the selected elements, in document order
SelectedElements ==
    SelectSeq(elements, LAMBDA el : \E k \in 1..Len(selectedIds) :
                                        selectedIds[k] = el.id)

\* C16: duplicate and default paste (Ctrl/Cmd+V) append one copy per source
\* element with a fresh id, x and y each equal to clamp(source + 5, 0, 100)
\* and all other fields copied; the source elements are unchanged, the
\* copies become the selection, and the whole operation adds exactly one
\* history snapshot.
C16_DuplicateAndPasteOffsetCopies ==
    [][/\ (MenuDuplicate /\ Len(selectedIds) > 0)
            => CopiesAppended(SelectedElements)
       /\ (KeyPaste(FALSE) /\ Len(clipboard) > 0)
            => CopiesAppended(clipboard)]_vars

\* an element at x = 100 has just been duplicated or pasted: its copy is
\* held at x = 100, is 5 lower, and is the selection
C16_Witness ==
    /\ lastOp \in {"duplicate", "paste"}
    /\ Len(elements) = Len(pre) + 1
    /\ \E i \in 1..Len(pre) :
            /\ pre[i].x = 100
            /\ elements[i] = pre[i]
            /\ elements[Len(elements)].x = 100
            /\ elements[Len(elements)].y = pre[i].y + 5
            /\ selectedIds = <<elements[Len(elements)].id>>

\* two elements have just been duplicated together
C16_WitnessTwo ==
    /\ lastOp = "duplicate"
    /\ Len(pre) = 2
    /\ Len(elements) = 4
    /\ Len(selectedIds) = 2
    /\ elements[3].x = pre[1].x + 5
    /\ elements[4].y = pre[2].y + 5

\* two elements have just been pasted with Ctrl/Cmd+V
C16_WitnessPasteTwo ==
    /\ lastOp = "paste"
    /\ contextMenu = NULL
    /\ Len(pre) = 2
    /\ Len(elements) = 4
    /\ Len(selectedIds) = 2
    /\ elements[3].x = clipboard[1].x + 5
    /\ elements[4].y = clipboard[2].y + 5

(***************************************************************************)
(* The legend: generateLegend() over the current elements                  *)
(***************************************************************************)
\* const kindOrder = { icon: 0, pressure: 1, wind: 2 }
kindOrder(kind) ==
    CASE kind = "icon" -> 0
      [] kind = "pressure" -> 1
      [] kind = "wind" -> 2

\* the key and the entry that one element contributes to legendMap, or NULL
LegendOf(el) ==
    IF el.kind = "icon"
    THEN LET found == SelectSeq(getAvailableIcons, LAMBDA i : i.id = el.iconId)
         IN  IF Len(found) > 0
             THEN [key |-> <<"icon", el.iconId>>,
                   entry |-> [kind |-> "icon", iconId |-> el.iconId,
                              label |-> found[1].label, glyph |-> found[1].glyph]]
             ELSE NULL
    ELSE IF el.kind = "pressure"
    THEN IF el.radius < 800
         THEN [key |-> <<"pressure", el.zone>>,
               entry |-> [kind |-> "pressure",
                          label |-> IF el.zone = "anticyclone"
                                    THEN "Anticyclone" ELSE "Depression",  \* Dépression
                          glyph |-> IF el.zone = "anticyclone" THEN "A" ELSE "D"]]
         ELSE NULL
    ELSE IF el.kind = "wind"
    THEN [key |-> <<"wind">>,
          entry |-> [kind |-> "wind", label |-> "Vent", glyph |-> "wind-glyph"]]
    ELSE NULL

\* legendMap after elements.forEach has visited the first n elements, in
\* insertion order
RECURSIVE legendMap(_)
legendMap(n) ==
    IF n = 0
    THEN <<>>
    ELSE LET m == legendMap(n - 1)
             c == LegendOf(elements[n])
         IN  IF c = NULL \/ \E k \in 1..Len(m) : m[k].key = c.key
             THEN m
             ELSE Append(m, c)

\* Array.prototype.sort with the kindOrder comparator (a stable sort)
RECURSIVE SortedByKind(_)
SortedByKind(entries) ==
    IF Len(entries) = 0
    THEN <<>>
    ELSE LET front == SortedByKind(SubSeq(entries, 1, Len(entries) - 1))
             last  == entries[Len(entries)]
         IN  SelectSeq(front, LAMBDA e : kindOrder(e.kind) <= kindOrder(last.kind))
             \o <<last>>
             \o SelectSeq(front, LAMBDA e : kindOrder(e.kind) > kindOrder(last.kind))

\* generateLegend() returning the entries in insertion order
generateLegendUnsorted ==
    LET m == legendMap(Len(elements))
    IN  [k \in 1..Len(m) |-> m[k].entry]

\* generateLegend()
generateLegend ==
    LET m == legendMap(Len(elements))
    IN  SortedByKind([k \in 1..Len(m) |-> m[k].entry])

MaxLegendElems == 3   \* elements of a saved document
MaxLegendSteps == 2   \* events handled in one run over a saved document

\* the elements a saved document is made of (ids are given by position)
LegendShapes ==
    { IconElement(0, "sun", 20, 50),
      IconElement(0, "cloud", 50, 50),
      PressureZoneElement(0, "anticyclone", 50, 10, 500),
      PressureZoneElement(0, "anticyclone", 50, 10, 1000),
      PressureZoneElement(0, "depression", 20, 50, 500),
      WindElement(0, 50, 50, 20),
      LabelElement(0, 20, 50, 20),
      TempElement(0, 50, 10, 20) }

\* loadProjectFromLocalStorage(): the documents of up to MaxLegendElems
\* elements
LegendProjects ==
    { [i \in 1..Len(doc) |-> [doc[i] EXCEPT !.id = i]] :
        doc \in UNION {[1..n -> LegendShapes] : n \in 0..MaxLegendElems} }

InitLegend ==
    /\ elements \in LegendProjects
    /\ historyRef = <<elements>>
    /\ historyIndexRef = 0
    /\ log = <<>>
    /\ nextVal = 0
    /\ free = 0
    /\ undoRun = 0
    /\ lastOp = "init"
    /\ pre = elements
    /\ preIdx = 0
    /\ pushes = 0
    /\ gest = NULL
    /\ tainted = FALSE
    /\ steps = MaxLegendSteps
    /\ EditorDefaults
    /\ uidNext = Len(elements) + 1

NextLegend ==
    \/ \E id \in IdSet(elements) : ElementContextMenu(id, HitPt(id))
    \/ MenuDelete
    \/ MenuDuplicate
    \/ KeyUndo(FALSE)

SpecLegend == InitLegend /\ [][NextLegend]_vars

\* ---------------------------------------------------------------------
\* Contents of the legend

\* the element belongs to the group of the legend entry
Belongs(el, entry) ==
    /\ el.kind = entry.kind
    /\ el.kind = "icon" => el.iconId = entry.iconId
    /\ el.kind = "pressure" =>
            (el.zone = "anticyclone" <=> entry.glyph = "A")

\* the indexes of the legend entries of one group
EntriesFor(el) ==
    {k \in 1..Len(generateLegend) : Belongs(el, generateLegend[k])}

LegendKinds == {"icon", "pressure", "wind"}

\* C17: the legend contains one entry for a zone type (anticyclone /
\* depression) if and only if at least one pressure zone of that type is in
\* the document, whatever its radius, one entry per distinct icon present,
\* and one wind entry if and only if a wind element exists.
C17_LegendEntryPerGroup ==
    /\ \A i \in 1..Len(elements) :
            elements[i].kind \in LegendKinds
                => Cardinality(EntriesFor(elements[i])) = 1
    /\ \A k \in 1..Len(generateLegend) :
            \E i \in 1..Len(elements) : Belongs(elements[i], generateLegend[k])

\* the same for the documents whose pressure zones all have a radius under 8
\* and whose icons are all in the catalogue
C17_HoldsForSmallZones ==
    (\A i \in 1..Len(elements) :
        /\ elements[i].kind = "pressure" => elements[i].radius < 800
        /\ elements[i].kind = "icon" =>
                \E j \in 1..Len(getAvailableIcons) :
                    getAvailableIcons[j].id = elements[i].iconId)
        => C17_LegendEntryPerGroup

\* two sun icons and one anticyclone zone of radius 10: the legend has the
\* sun entry alone
C17_LargeZoneLeftOut ==
    /\ Len(elements) = 3
    /\ elements[1].kind = "icon" /\ elements[1].iconId = "sun"
    /\ elements[2].kind = "icon" /\ elements[2].iconId = "sun"
    /\ elements[3].kind = "pressure" /\ elements[3].zone = "anticyclone"
    /\ elements[3].radius = 1000
    /\ Len(generateLegend) = 1
    /\ generateLegend[1].kind = "icon"

\* ---------------------------------------------------------------------
\* Order of the legend

\* the element contributes to the legend entry
Contributes(el, entry) == LegendOf(el) # NULL /\ LegendOf(el).entry = entry

\* the index of the first element that contributes to the entry
FirstIndex(entry) ==
    CHOOSE i \in 1..Len(elements) :
        /\ Contributes(elements[i], entry)
        /\ \A j \in 1..(i - 1) : ~Contributes(elements[j], entry)

\* C18: legend entries are ordered by kind priority icon, then pressure,
\* then wind; entries of the same kind keep the order in which their first
\* element appears in the element sequence; label and temperature elements
\* never produce an entry.
C18_LegendOrder ==
    LET L == generateLegend
    IN  /\ \A k \in 1..Len(L) :
              /\ L[k].kind \in LegendKinds
              /\ \E i \in 1..Len(elements) : Contributes(elements[i], L[k])
        /\ \A a \in 1..Len(L), b \in 1..Len(L) :
              a < b =>
                /\ kindOrder(L[a].kind) <= kindOrder(L[b].kind)
                /\ L[a].kind = L[b].kind => FirstIndex(L[a]) < FirstIndex(L[b])
        /\ \A i \in 1..Len(elements) :
              elements[i].kind \in {"label", "temp"} => LegendOf(elements[i]) = NULL

\* a wind element placed before a cloud icon and a sun icon has just been
\* duplicated: the legend reads cloud, sun, wind
C18_Witness ==
    /\ lastOp = "duplicate"
    /\ Len(elements) = 4
    /\ elements[1].kind = "wind"
    /\ elements[2].kind = "icon" /\ elements[2].iconId = "cloud"
    /\ elements[3].kind = "icon" /\ elements[3].iconId = "sun"
    /\ Len(generateLegend) = 3
    /\ generateLegend[1].kind = "icon" /\ generateLegend[1].iconId = "cloud"
    /\ generateLegend[2].kind = "icon" /\ generateLegend[2].iconId = "sun"
    /\ generateLegend[3].kind = "wind"

\* a document of a label and a temperature alone, after a deletion: the
\* legend is empty
C18_WitnessNoEntry ==
    /\ lastOp = "delete"
    /\ Len(elements) = 2
    /\ elements[1].kind = "label"
    /\ elements[2].kind = "temp"
    /\ generateLegend = <<>>

\* ---------------------------------------------------------------------
\* Occurrence counts

\* the number of elements of the document in the group of the entry
Occurrences(entry) ==
    Cardinality({i \in 1..Len(elements) : Belongs(elements[i], entry)})

\* C19: each legend entry carries an occurrence count equal to the number
\* of elements in the document that belong to its group.
C19_LegendCounts ==
    \A k \in 1..Len(generateLegend) :
        /\ "count" \in DOMAIN generateLegend[k]
        /\ generateLegend[k].count = Occurrences(generateLegend[k])

\* two sun icons: the sun entry has a kind, an icon id, a label and a glyph,
\* and nothing else
C19_NoCountField ==
    /\ Len(elements) >= 2
    /\ elements[1].kind = "icon" /\ elements[1].iconId = "sun"
    /\ elements[2].kind = "icon" /\ elements[2].iconId = "sun"
    /\ Len(generateLegend) >= 1
    /\ DOMAIN generateLegend[1] = {"kind", "iconId", "label", "glyph"}

(***************************************************************************)
(* The editor driven by project imports, the context menu and Ctrl+Z       *)
(***************************************************************************)
MaxImportSteps == 4   \* events handled in one run of imports

InitImport ==
    /\ elements \in SavedProjects
    /\ historyRef = <<elements>>
    /\ historyIndexRef = 0
    /\ log = <<>>
    /\ nextVal = 0
    /\ free = 0
    /\ undoRun = 0
    /\ lastOp = "init"
    /\ pre = elements
    /\ preIdx = 0
    /\ pushes = 0
    /\ gest = NULL
    /\ tainted = FALSE
    /\ steps = MaxImportSteps
    /\ EditorDefaults
    /\ uidNext = Len(elements) + 1

NextImport ==
    \/ \E file \in ProjectFiles \cup IncompleteProjectFiles : ImportFile(file)
    \/ \E now \in Timestamps : ImportFile(exportProject(now))
    \/ \E id \in IdSet(elements) : ElementContextMenu(id, HitPt(id))
    \/ MenuCopy
    \/ MenuDuplicate
    \/ KeyUndo(FALSE)

SpecImport == InitImport /\ [][NextImport]_vars

\* ---------------------------------------------------------------------
\* Rejected imports

\* the file is not parseable, has no version tag, or its elements field is
\* missing or not a list
Malformed(file) ==
    \/ ~file.parsed
    \/ "version" \notin DOMAIN file.data
    \/ "elements" \notin DOMAIN file.data
    \/ file.data.elements = NOT_ARRAY

\* C20: importing a record that is not parseable, has no version tag, or
\* whose elements field is missing or not a list is rejected and leaves
\* elements, background, aspect ratio, custom icons, selection, clipboard
\* and history exactly as they were before the import.
C20_RejectedImportChangesNothing ==
    [][\A file \in ProjectFiles :
            (ImportFile(file) /\ Malformed(file)) =>
                /\ lastOp' = "importRejected"
                /\ UNCHANGED <<elements, bgId, bgUrl, aspectRatio, customIcons,
                               selectedIds, clipboard, historyRef,
                               historyIndexRef>>]_vars

\* an import has just been rejected in an editor with a background chosen
\* by an earlier import, a selection, a clipboard and two history entries
C20_Witness ==
    /\ lastOp = "importRejected"
    /\ bgId = "france"
    /\ Len(elements) > 0
    /\ Len(selectedIds) > 0
    /\ Len(clipboard) > 0
    /\ Len(historyRef) = 2
    /\ elements = pre

\* ---------------------------------------------------------------------
\* Successful imports

\* the files an import run may read: the project files and the exports
\* of the current document
ImportFiles ==
    ProjectFiles \cup IncompleteProjectFiles
        \cup {exportProject(now) : now \in Timestamps}

\* C21: after a successful import the element sequence equals the imported
\* record's element list (same ids, fields and order), the background and
\* the custom icon catalog are those of the record, the selection is empty
\* and the clipboard is empty.
C21_ImportReplacesDocument ==
    [][\A file \in ImportFiles :
            (ImportFile(file) /\ lastOp' = "import") =>
                /\ elements' = file.data.elements.array
                /\ bgId' = file.data.bgId
                /\ bgUrl' = file.data.bgUrl
                /\ aspectRatio' = file.data.aspectRatio
                /\ customIcons' = Get(file.data, "customIcons")
                /\ selectedIds' = <<>>
                /\ clipboard' = <<>>]_vars

\* the two-element project with a custom icon has just been imported over
\* another document (elements in the file's order)
C21_Witness ==
    /\ lastOp = "import"
    /\ pre # elements
    /\ Len(pre) > 0
    /\ Ids(elements) = <<8, 9>>
    /\ elements[2].kind = "wind"
    /\ bgId = "france"
    /\ aspectRatio = "4 / 3"
    /\ customIcons = Array(<<[id |-> "c1", label |-> "Tornade",
                              glyph |-> "tornado-glyph"]>>)
    /\ selectedIds = <<>>
    /\ clipboard = <<>>

\* C22: importing a record that has a version and an element list but
\* lacks an optional field never leaves that part of the document
\* undefined: after any import the custom icon catalog is a (possibly
\* empty) list.
C22_CatalogIsAList == isArray(customIcons)

\* a record with a custom icon catalog has just been imported, and the
\* catalog is a list
C22_ListAfterCompleteImport ==
    /\ lastOp = "import"
    /\ isArray(customIcons)
    /\ Len(customIcons.array) = 1

\* C23: importing the export of the current document yields the same
\* elements, element for element and field for field (ids and order
\* preserved), and the same background reference, aspect ratio and custom
\* icon catalog.
C23_ExportImportRoundTrip ==
    [][\A now \in Timestamps :
            ImportFile(exportProject(now)) =>
                /\ lastOp' = "import"
                /\ elements' = elements
                /\ bgId' = bgId
                /\ bgUrl' = bgUrl
                /\ aspectRatio' = aspectRatio
                /\ customIcons' = customIcons]_vars

\* the export of a document of two elements, one of them a copy made in
\* this run, with a custom icon catalog and a chosen background has just
\* been imported
C23_Witness ==
    /\ lastOp = "import"
    /\ pre = elements
    /\ Len(elements) >= 2
    /\ bgId = "france"
    /\ isArray(customIcons)
    /\ Len(customIcons.array) = 1
    /\ Len(historyRef) >= 2

(***************************************************************************)
(* The editor over time: the auto-save interval, imports, the context menu *)
(* and Ctrl+Z                                                              *)
(***************************************************************************)
MaxAutosaveSteps == 6   \* events and time units in one run

\* one time unit passes; when the interval's period has elapsed its callback
\* runs saveProjectToLocalStorage on the document of the latest render and
\* the interval starts its next period
Tick ==
    /\ steps > 0
    /\ Keep
    /\ IF autosaveTimer = 1
       THEN /\ autosaveTimer' = AUTO_SAVE_INTERVAL
            /\ sinceSave' = 0
            /\ Observe("autosave")
       ELSE /\ autosaveTimer' = autosaveTimer - 1
            /\ sinceSave' = sinceSave + 1
            /\ Observe("tick")
    /\ steps' = steps - 1
    /\ UNCHANGED <<storeObs, gest, tainted, editorVars>>

InitAutosave ==
    /\ elements \in SavedProjects
    /\ historyRef = <<elements>>
    /\ historyIndexRef = 0
    /\ log = <<>>
    /\ nextVal = 0
    /\ free = 0
    /\ undoRun = 0
    /\ lastOp = "init"
    /\ pre = elements
    /\ preIdx = 0
    /\ pushes = 0
    /\ gest = NULL
    /\ tainted = FALSE
    /\ steps = MaxAutosaveSteps
    /\ EditorDefaults
    /\ uidNext = Len(elements) + 1

NextAutosave ==
    \/ Tick
    \/ \E file \in ProjectFiles : ImportFile(file)
    \/ \E id \in IdSet(elements) : ElementContextMenu(id, HitPt(id))
    \/ MenuDuplicate
    \/ MenuDelete
    \/ KeyUndo(FALSE)

SpecAutosave == InitAutosave /\ [][NextAutosave]_vars

\* C24: auto-save runs on a fixed 30-second period independent of user
\* actions: a write of the current document occurs within 30 seconds after
\* the start and after each previous write, so 30 seconds never elapse
\* without a write, even when the user changes elements, background or
\* custom icons at shorter intervals.
C24_SavedEveryInterval == sinceSave < AUTO_SAVE_INTERVAL

\* the interval's callback has just written a non-empty document, 30
\* seconds after the start or the previous write
C24_SavedAfterQuietInterval ==
    /\ lastOp = "autosave"
    /\ sinceSave = 0
    /\ autosaveTimer = AUTO_SAVE_INTERVAL
    /\ Len(elements) > 0

\* 40 seconds have passed without a write
C24_NoSaveFor40Seconds == sinceSave = AUTO_SAVE_INTERVAL + 1

\* ---------------------------------------------------------------------
\* Keyboard shortcuts and the focus

\* C25: Delete, Ctrl/Cmd+C and Ctrl/Cmd+V have no effect while the focus
\* is inside a text input field; Ctrl/Cmd+Z performs an undo wherever the
\* focus is, including inside a text input field.
C25_ShortcutsAndFocus ==
    [][/\ (KeyDelete(TRUE) \/ KeyCopy(TRUE) \/ KeyPaste(TRUE)) =>
                UNCHANGED <<elements, historyRef, historyIndexRef,
                            selectedIds, clipboard>>
       /\ \A isInInput \in BOOLEAN :
            KeyUndo(isInInput) =>
                /\ elements' = Undone(historyRef, historyIndexRef, elements).state
                /\ historyIndexRef' =
                        Undone(historyRef, historyIndexRef, elements).idx]_vars

\* Delete, Ctrl/Cmd+C and Ctrl/Cmd+V pressed inside a text input field
\* change neither the elements, the history, the selection nor the
\* clipboard; Ctrl/Cmd+Z pressed outside a text input field performs an undo.
C25_HoldsOutsideInputForUndo ==
    [][/\ (KeyDelete(TRUE) \/ KeyCopy(TRUE) \/ KeyPaste(TRUE)) =>
                UNCHANGED <<elements, historyRef, historyIndexRef,
                            selectedIds, clipboard>>
       /\ KeyUndo(FALSE) =>
                /\ elements' = Undone(historyRef, historyIndexRef, elements).state
                /\ historyIndexRef' =
                        Undone(historyRef, historyIndexRef, elements).idx]_vars

\* Ctrl/Cmd+Z pressed inside a text input field leaves the cursor of the
\* history above 0 and the elements as they were
C25_UndoIgnoredInInput ==
    [][KeyUndo(TRUE) /\ historyIndexRef > 0 =>
            UNCHANGED <<elements, historyIndexRef>>]_vars

\* ---------------------------------------------------------------------
\* Placement tools

\* the pointer-down appended one element of the tool's kind at (x, y),
\* selected it alone and left the tool as the placement rules say
PlacedOneAt(x, y, shiftKey) ==
    /\ Len(elements') = Len(elements) + 1
    /\ \A i \in 1..Len(elements) : elements'[i] = elements[i]
    /\ elements'[Len(elements')].x = x
    /\ elements'[Len(elements')].y = y
    /\ elements'[Len(elements')].id \notin IdSet(elements)
    /\ selectedIds' = <<elements'[Len(elements')].id>>
    /\ activeTool' = IF activeTool = "add-icon" /\ shiftKey THEN "add-icon"
                                                            ELSE "select"

\* C26: whenever a placement tool (icon, label, temperature, wind) is
\* active, a pointer-down on the stage adds exactly one new element at the
\* pointer's position, makes it the sole selection and returns the tool to
\* select (an icon placed with shift held leaves the icon tool active),
\* also when no pointer-move on the stage preceded the click.
C26_PlacementClickAddsElement ==
    [][\A p \in PointerPts, shiftKey \in BOOLEAN :
            (PointerDownStage(p, shiftKey) /\ activeTool \in PlacementTools)
                => PlacedOneAt(p.x, p.y, shiftKey)]_vars

\* with a ghost preview on the stage the pointer-down adds exactly one
\* element at the preview's position, selects it alone and returns the
\* tool to select, or keeps the icon tool when shift is held
C26_HoldsWithGhost ==
    [][\A p \in PointerPts, shiftKey \in BOOLEAN :
            (/\ PointerDownStage(p, shiftKey)
             /\ activeTool \in PlacementTools
             /\ ghost # NULL)
                => PlacedOneAt(ghost.x, ghost.y, shiftKey)]_vars

\* without a ghost preview the pointer-down with a placement tool places
\* nothing and leaves the tool active
C26_NothingPlacedWithoutGhost ==
    [][\A p \in PointerPts, shiftKey \in BOOLEAN :
            (/\ PointerDownStage(p, shiftKey)
             /\ activeTool \in PlacementTools
             /\ ghost = NULL)
                => UNCHANGED <<elements, selectedIds, activeTool>>]_vars

\* ---------------------------------------------------------------------
\* Cancelling a tool

\* the tool is back to select, no preview is left, and elements, selection
\* and history are as before
CancelledUntouched ==
    /\ activeTool' = "select"
    /\ ghost' = NULL
    /\ UNCHANGED <<elements, selectedIds, historyRef, historyIndexRef>>

\* C27 (as stated, for a right-click anywhere on the stage, over an
\* element or not): Escape or right-click while an icon, label,
\* temperature or wind placement tool is active returns the tool to
\* select, creates no element, leaves the element sequence and selection
\* unchanged and adds no history snapshot.
C27_AnyRightClickCancelsPlacement ==
    [][(/\ activeTool \in PlacementTools
        /\ \/ KeyEscape
           \/ \E p \in PointerPts : StageContextMenu(p)
           \/ \E id \in IdSet(elements) : ElementContextMenu(id, HitPt(id)))
            => CancelledUntouched]_vars

\* C27 (amended): Escape, or a right-click on the stage outside every
\* element, while an icon, label, temperature or wind placement tool is
\* active returns the tool to select, creates no element, leaves the
\* element sequence and selection unchanged and adds no history snapshot.
C27_CancelPlacement ==
    [][(/\ activeTool \in PlacementTools
        /\ \/ KeyEscape
           \/ \E p \in PointerPts : StageContextMenu(p))
            => CancelledUntouched]_vars

\* a placement has just been cancelled in a document with elements, a
\* selection and a history cursor above 0
C27_Witness ==
    /\ lastOp = "cancel"
    /\ activeTool = "select"
    /\ ghost = NULL
    /\ Len(elements) > 0
    /\ Len(selectedIds) > 0
    /\ historyIndexRef > 0
    /\ elements = pre

\* C28: Escape while a pressure-zone tool (anticyclone / depression) is
\* active, or while a zone is being drawn, cancels it: the tool returns to
\* select, the in-progress zone is discarded and no element is created.
C28_EscapeCancelsZone ==
    [][(KeyEscape /\ (activeTool \in ZoneTools \/ drawingZone # NULL)) =>
            /\ activeTool' = "select"
            /\ drawingZone' = NULL
            /\ elements' = elements]_vars

\* Escape while a pressure-zone tool is active, a zone being drawn or not,
\* changes neither the tool nor the zone in progress
C28_EscapeIgnoredByZoneTool ==
    [][(KeyEscape /\ activeTool \in ZoneTools) =>
            UNCHANGED <<activeTool, drawingZone, elements>>]_vars

\* Escape has just been pressed during a zone draw: the zone is still in
\* progress and its tool still active
C28_ZoneSurvivesEscape ==
    /\ lastOp = "escape"
    /\ activeTool \in ZoneTools
    /\ drawingZone # NULL
    /\ pointer.down

\* ---------------------------------------------------------------------
\* Drawing a pressure zone

\* r is the distance whose square is d2, clamped to [2, 50], in hundredths
IsClampedDistance(r, d2) ==
    IF d2 <= 4 THEN r = 200
    ELSE IF d2 >= 2500 THEN r = 5000
    ELSE r * r <= 10000 * d2 /\ (r + 1) * (r + 1) > 10000 * d2

\* a zone draw is in progress and no drag or resize is
ZoneDrawing ==
    /\ activeTool \in ZoneTools
    /\ drawingZone # NULL
    /\ dragRef = NULL
    /\ resizeRef = NULL

HistoryUntouched == UNCHANGED <<elements, historyRef, historyIndexRef>>

\* C29: a zone-draw gesture (pointer-down on the stage with an
\* anticyclone/depression tool active, any number of pointer-moves,
\* pointer-up) appends exactly one pressure zone whose centre is the
\* pointer-down position and whose radius is the centre-to-pointer distance
\* clamped to [2,50] (2 when there was no move), selects it, returns the
\* tool to select and adds exactly one history snapshot. Step by step: the
\* pointer-down starts a zone of radius 2 at the pointer, every move keeps
\* the centre and sets the radius, the pointer-up appends the zone; only
\* the pointer-up touches the elements and the history.
C29_ZoneDrawGesture ==
    [][/\ \A p \in GesturePts :
            (/\ PointerDownStage(p, FALSE)
             /\ activeTool \in ZoneTools) =>
                /\ drawingZone' =
                        [kind |-> IF activeTool = "add-anticyclone"
                                  THEN "anticyclone" ELSE "depression",
                         cx |-> p.x, cy |-> p.y, r |-> 200]
                /\ HistoryUntouched
       /\ \A t \in Targets, p \in GesturePts :
            (PointerMove(t, p) /\ ZoneDrawing) =>
                /\ drawingZone'.kind = drawingZone.kind
                /\ drawingZone'.cx = drawingZone.cx
                /\ drawingZone'.cy = drawingZone.cy
                /\ IsClampedDistance(drawingZone'.r,
                        Dist2(p.x, p.y, drawingZone.cx, drawingZone.cy))
                /\ HistoryUntouched
       /\ ((\E t \in Targets : PointerUp(t)) /\ ZoneDrawing) =>
                /\ Len(elements') = Len(elements) + 1
                /\ \A i \in 1..Len(elements) : elements'[i] = elements[i]
                /\ LET el == elements'[Len(elements')]
                   IN  /\ el.kind = "pressure"
                       /\ el.zone = drawingZone.kind
                       /\ el.x = drawingZone.cx
                       /\ el.y = drawingZone.cy
                       /\ el.radius = drawingZone.r
                       /\ el.id \notin IdSet(elements)
                       /\ selectedIds' = <<el.id>>
                /\ activeTool' = "select"
                /\ drawingZone' = NULL
                /\ pushes' = pushes + 1
                /\ historyIndexRef' = historyIndexRef + 1
                /\ historyRef' = Append(SubSeq(historyRef, 1, historyIndexRef + 1),
                                        elements')]_vars

\* a depression drawn from (20, 50) to (50, 10) has just been appended
\* with radius 50, selected, with one more snapshot
C29_Witness ==
    /\ lastOp = "up"
    /\ Len(elements) = Len(pre) + 1
    /\ elements[Len(elements)].kind = "pressure"
    /\ elements[Len(elements)].zone = "depression"
    /\ elements[Len(elements)].x = 20
    /\ elements[Len(elements)].y = 50
    /\ elements[Len(elements)].radius = 5000
    /\ selectedIds = <<elements[Len(elements)].id>>
    /\ activeTool = "select"
    /\ drawingZone = NULL
    /\ pushes = 1
    /\ historyIndexRef = preIdx + 1

\* a zone drawn without any pointer-move (tool choice, pointer-down and
\* pointer-up are the three events of the run) has just been appended with
\* radius 2
C29_WitnessNoMove ==
    /\ lastOp = "up"
    /\ steps = MaxGestureSteps - 3
    /\ Len(elements) = Len(pre) + 1
    /\ elements[Len(elements)].kind = "pressure"
    /\ elements[Len(elements)].radius = 200
    /\ pushes = 1

\* ---------------------------------------------------------------------
\* Resizing text elements

TextKinds == {"label", "temp", "wind"}

\* a pointer-move of a linear resize gesture
ResizeMove(t, p) ==
    /\ resizeRef # NULL
    /\ resizeRef.mode = "linear"
    /\ dragRef = NULL
    /\ PointerMove(t, p)

\* after the move every resized text element has the gesture-start
\* fontSize plus 0.5 times the horizontal pixel delta, clamped to [lo, hi]
\* and rounded to one decimal
ResizedWithin(p, lo, hi) ==
    /\ Len(elements') = Len(elements)
    /\ \A i \in 1..Len(elements) :
        (elements[i].kind \in TextKinds /\ Includes(resizeRef.ids, elements[i].id))
            => 10 * elements'[i].fontSize =
                    LinearTenths(1000 * resizeRef.initialSizes[elements[i].id],
                                 (p.x - resizeRef.startXPct) * StageWidth * 5,
                                 lo, hi)

\* C30: after any pointer-move of a resize gesture on a label, temperature
\* or wind element, its fontSize equals the gesture-start fontSize plus 0.5
\* times the horizontal pixel delta, clamped to [10,80] and rounded to one
\* decimal.
C30_ResizeClampedTo80 ==
    [][\A t \in Targets, p \in GesturePts :
            ResizeMove(t, p) => ResizedWithin(p, 10, 80)]_vars

\* the same with the clamp of the code, [10,120]
C30_ResizeClampedTo120 ==
    [][\A t \in Targets, p \in GesturePts :
            ResizeMove(t, p) => ResizedWithin(p, 10, 120)]_vars

\* C30, second part: the fontSize of every text element stays within
\* [10,80]
C30_FontSizeWithin10And80 ==
    \A i \in 1..Len(elements) :
        elements[i].kind \in TextKinds =>
            elements[i].fontSize >= 10 /\ elements[i].fontSize <= 80

\* a resize has left a text element with a fontSize of 120
C30_ResizedTo120 ==
    /\ lastOp = "move"
    /\ resizeRef # NULL
    /\ \E i \in 1..Len(elements) :
            elements[i].kind \in TextKinds /\ elements[i].fontSize = 120

\* ---------------------------------------------------------------------
\* Ranges of the size metrics

\* C31: in every state reached by zone drawing, resize gestures (started on
\* a pressure zone's handle or on another element's handle in a mixed
\* selection) and panel edits, every pressure zone's radius lies in [2,50]
\* and every icon's size lies in [16,200].
C31_RadiusAndSizeInRange ==
    \A i \in 1..Len(elements) :
        /\ elements[i].kind = "pressure" =>
                elements[i].radius >= 200 /\ elements[i].radius <= 5000
        /\ elements[i].kind = "icon" =>
                elements[i].size >= 16 /\ elements[i].size <= 200

\* a linear resize of a mixed selection is in progress and has brought an
\* icon to size 200 and a pressure zone to radius 50, the upper bounds
C31_Witness ==
    /\ lastOp = "move"
    /\ resizeRef # NULL
    /\ resizeRef.mode = "linear"
    /\ \E i \in 1..Len(elements) :
            /\ elements[i].kind = "icon"
            /\ elements[i].size = 200
            /\ Includes(resizeRef.ids, elements[i].id)
    /\ \E i \in 1..Len(elements) :
            /\ elements[i].kind = "pressure"
            /\ elements[i].radius = 5000
            /\ Includes(resizeRef.ids, elements[i].id)

\* a resize on a pressure zone's handle has brought its radius to a bound
C31_WitnessPressureHandle ==
    /\ lastOp = "move"
    /\ resizeRef # NULL
    /\ resizeRef.mode = "pressure"
    /\ Find(elements, resizeRef.anchorId) # NULL
    /\ Find(elements, resizeRef.anchorId).radius \in {200, 5000}
    /\ Find(elements, resizeRef.anchorId) # Find(gest.start, resizeRef.anchorId)

\* a zone has just been drawn in an empty document
C31_WitnessDrawnFromEmpty ==
    /\ lastOp = "up"
    /\ pre = <<>>
    /\ Len(elements) = 1
    /\ elements[1].kind = "pressure"

\* ---------------------------------------------------------------------
\* Resize gestures and the metric recorded at their start

(***************************************************************************)
(* The editor driven through the pointer alone from a document of one     *)
(* icon: a zone is drawn, the icon is added to the selection, and the two  *)
(* are resized together from the icon's handle                             *)
(***************************************************************************)
MaxResizeSteps == 9  \* events handled in one run of draw-select-resize

\* pointer positions whose distances are not all whole numbers of percents
ResizePts == {[x |-> 20, y |-> 50], [x |-> 50, y |-> 30], [x |-> 60, y |-> 50]}

InitResize ==
    /\ elements = << IconElement(1, "sun", 20, 50) >>
    /\ historyRef = <<elements>>
    /\ historyIndexRef = 0
    /\ log = <<>>
    /\ nextVal = 0
    /\ free = 0
    /\ undoRun = 0
    /\ lastOp = "init"
    /\ pre = elements
    /\ preIdx = 0
    /\ pushes = 0
    /\ gest = NULL
    /\ tainted = FALSE
    /\ steps = MaxResizeSteps
    /\ EditorDefaults
    /\ uidNext = Len(elements) + 1

NextResize ==
    \/ SetActiveTool("add-anticyclone")
    \/ \E p \in ResizePts : PointerDownStage(p, FALSE)
    \/ \E id \in IdSet(elements) : PointerDownElement(id, HitPt(id), TRUE)
    \/ \E id \in IdSet(elements) : PointerDownHandle(id, HitPt(id))
    \/ \E t \in Targets, p \in ResizePts : PointerMove(t, p)
    \/ \E t \in Targets : PointerUp(t)

SpecResize == InitResize /\ [][NextResize]_vars

\* a resize gesture is in progress
Resizing == resizeRef # NULL /\ GestActive /\ gest.kind = "resize"

\* the metric the i-th element has after a pointer-move to p of the resize
\* in progress, computed from the document at the start of the gesture
MetricFromStart(i, p) ==
    LET s == gest.start[i]
    IN  IF resizeRef.mode = "linear"
        THEN IF Includes(resizeRef.ids, s.id)
             THEN Held(s, ResizedTenths(s, Metric(s), p.x - resizeRef.startXPct))
             ELSE Metric(s)
        ELSE IF s.id = resizeRef.anchorId
             THEN 10 * RadiusTenths(Dist2(p.x, p.y, s.x, s.y))
             ELSE Metric(s)

\* after a pointer-move of a resize every element's metric is the one
\* computed from the gesture-start document and the pointer position
MetricsFromStart(p) ==
    /\ Len(elements') = Len(gest.start)
    /\ \A i \in 1..Len(gest.start) :
            /\ elements'[i].id = gest.start[i].id
            /\ Metric(elements'[i]) = MetricFromStart(i, p)

\* after a pointer-move of a linear resize to the gesture-start x every
\* element has its gesture-start metric
MetricsRestored(p) ==
    (resizeRef.mode = "linear" /\ p.x = resizeRef.startXPct) =>
        \A i \in 1..Len(gest.start) :
            Metric(elements'[i]) = Metric(gest.start[i])

\* C32: within one resize gesture, every element's size metric after a
\* pointer-move is determined by the metric recorded at gesture start and
\* the pointer position of that move alone, and in the linear mode a move
\* to the gesture-start x gives every element its gesture-start metric
\* exactly
C32_MetricFromStartAndPointer ==
    [][\A t \in Targets, p \in ResizePts :
            (PointerMove(t, p) /\ Resizing) =>
                MetricsFromStart(p) /\ MetricsRestored(p)]_vars

\* the first half alone: the metrics after a move are those computed from
\* the gesture-start document and the pointer position
C32_IndependentOfEarlierMoves ==
    [][\A t \in Targets, p \in ResizePts :
            (PointerMove(t, p) /\ Resizing) => MetricsFromStart(p)]_vars

\* the second half for the elements whose gesture-start metric has at most
\* one decimal: a move to the gesture-start x restores it
C32_RestoredWhenOneDecimal ==
    [][\A t \in Targets, p \in ResizePts :
            (PointerMove(t, p) /\ Resizing /\ resizeRef.mode = "linear"
                /\ p.x = resizeRef.startXPct) =>
                \A i \in 1..Len(gest.start) :
                    (gest.start[i].kind = "pressure"
                        => gest.start[i].radius % 10 = 0)
                    => Metric(elements'[i]) = Metric(gest.start[i])]_vars

\* a linear resize has been moved twice, the second time back over the
\* handle, and the icon has its gesture-start size again
C32_BackAtStart ==
    /\ lastOp = "move"
    /\ Resizing /\ resizeRef.mode = "linear"
    /\ gest.moves = 2
    /\ Len(pre) = Len(elements)
    /\ \E i \in 1..Len(elements) :
            /\ elements[i].kind = "icon"
            /\ Includes(resizeRef.ids, elements[i].id)
            /\ pre[i].size # elements[i].size
            /\ elements[i].size = gest.start[i].size

\* a zone drawn with radius 36.05.. and resized with an icon from the
\* icon's handle has radius 36.1 while the icon still has its size
C32_DrawnZoneRounded ==
    /\ lastOp = "move"
    /\ Resizing /\ resizeRef.mode = "linear"
    /\ \E i, j \in 1..Len(elements) :
            /\ elements[i].kind = "pressure"
            /\ Includes(resizeRef.ids, elements[i].id)
            /\ gest.start[i].radius = 3605
            /\ elements[i].radius = 3610
            /\ elements[j].kind = "icon"
            /\ Includes(resizeRef.ids, elements[j].id)
            /\ elements[j].size = gest.start[j].size

\* ---------------------------------------------------------------------
\* One gesture at a time

\* the gestures in progress, by the state that marks them
ActiveGestures ==
    {g \in {"drag", "resize", "zone", "marquee"} :
        \/ g = "drag" /\ dragRef # NULL
        \/ g = "resize" /\ resizeRef # NULL
        \/ g = "zone" /\ drawingZone # NULL
        \/ g = "marquee" /\ isDrawingSelection}

\* C33: in every reachable state at most one of drag (dragRef set), resize
\* (resizeRef set), zone drawing (drawingZone set) and marquee selection
\* (isDrawingSelection) is in progress
C33_OneGestureAtATime == Cardinality(ActiveGestures) <= 1

\* a marquee is in progress while dragRef still names elements that were
\* deleted during their drag
C33_MarqueeWithStaleDrag ==
    /\ isDrawingSelection
    /\ dragRef # NULL
    /\ \A i \in 1..Len(dragRef.ids) : Find(elements, dragRef.ids[i]) = NULL

\* ---------------------------------------------------------------------
\* Pointer-down on an element: selection and dragged set

\* neither id nor any selected element is locked
NoneLocked(id) ==
    /\ ~IsLocked(Find(elements, id))
    /\ \A i \in 1..Len(selectedIds) :
            Find(elements, selectedIds[i]) # NULL
            /\ ~IsLocked(Find(elements, selectedIds[i]))

\* C34: where no element involved is locked, a pointer-down without
\* shift/ctrl on a selected element leaves the selection unchanged and
\* drags the whole selection; a pointer-down on an unselected element drags
\* that element alone and makes it the selection, or with shift/ctrl adds
\* it to the selection
C34_PointerDownSelectsAndDrags ==
    [][\A id \in IdSet(elements), multi \in BOOLEAN :
            (PointerDownElement(id, HitPt(id), multi) /\ NoneLocked(id)) =>
                /\ (Includes(selectedIds, id) /\ ~multi) =>
                        /\ selectedIds' = selectedIds
                        /\ dragRef' # NULL /\ dragRef'.ids = selectedIds
                /\ ~Includes(selectedIds, id) =>
                        /\ dragRef' # NULL /\ dragRef'.ids = <<id>>
                        /\ selectedIds' = IF multi THEN Append(selectedIds, id)
                                                   ELSE <<id>>]_vars

\* the same with the selection the code sets: a pointer-down without
\* shift/ctrl makes the element the whole selection, selected before or not
C34_PlainPointerDownSelectsOne ==
    [][\A id \in IdSet(elements), multi \in BOOLEAN :
            (PointerDownElement(id, HitPt(id), multi) /\ NoneLocked(id)) =>
                /\ ~multi => selectedIds' = <<id>>
                /\ Includes(selectedIds, id) =>
                        dragRef' # NULL /\ dragRef'.ids = selectedIds
                /\ ~Includes(selectedIds, id) =>
                        /\ dragRef' # NULL /\ dragRef'.ids = <<id>>
                        /\ multi => selectedIds' = Append(selectedIds, id)]_vars

\* two elements were selected and a pointer-down without shift/ctrl on one
\* of them left it selected alone, both being dragged
C34_SelectionCollapsed ==
    /\ lastOp = "elementDown"
    /\ dragRef # NULL
    /\ Len(dragRef.ids) = 2
    /\ selectedIds = <<dragRef.ids[1]>> \/ selectedIds = <<dragRef.ids[2]>>

\* ---------------------------------------------------------------------
\* Selection and history

\* the pointer-up that ends a marquee
MarqueeEnding ==
    resizeRef = NULL /\ drawingZone = NULL /\ isDrawingSelection
        /\ selectionBox # NULL

NoSnapshot == HistoryUntouched /\ pushes' = pushes

\* C35: a selection operation (pointer-down on an element with or without
\* shift/ctrl, right-click on an element, the end of a marquee, which sets
\* or empties the selection) adds no history snapshot and leaves the
\* element sequence as it is, and undo leaves the selection, the clipboard,
\* the background and the custom icon catalog as they are
C35_SelectionOutsideHistory ==
    [][/\ \A id \in IdSet(elements), multi \in BOOLEAN :
            PointerDownElement(id, HitPt(id), multi) => NoSnapshot
       /\ \A id \in IdSet(elements) :
            ElementContextMenu(id, HitPt(id)) => NoSnapshot
       /\ \A t \in Targets : (PointerUp(t) /\ MarqueeEnding) => NoSnapshot
       /\ \A isInInput \in BOOLEAN :
            KeyUndo(isInInput) =>
                UNCHANGED <<selectedIds, clipboard, bgId, bgUrl, aspectRatio,
                            customIcons>>]_vars

\* an undo has removed an element and left it in the selection
C35_Witness ==
    /\ lastOp = "undo"
    /\ Len(elements) < Len(pre)
    /\ \E i \in 1..Len(selectedIds) :
            /\ Find(pre, selectedIds[i]) # NULL
            /\ Find(elements, selectedIds[i]) = NULL

\* a marquee has emptied a selection without a snapshot
C35_WitnessMarqueeClears ==
    /\ lastOp = "up"
    /\ selectedIds = <<>>
    /\ ~isDrawingSelection
    /\ Len(elements) > 0
    /\ pushes = 0
    /\ steps = MaxSteps - 4

\* ---------------------------------------------------------------------
\* Reset-all and undo

\* C36: a confirmed reset-all leaves the element list and the selection
\* empty, and the undo that follows it leaves the element list empty
C36_ResetCannotBeUndone ==
    [][/\ ResetAll(TRUE) => (elements' = <<>> /\ selectedIds' = <<>>)
       /\ (KeyUndo(FALSE) /\ lastOp = "reset") => elements' = <<>>]_vars

\* the first half alone: a confirmed reset-all empties the element list and
\* the selection, and records the empty list as one more snapshot
C36_ResetEmptiesAndRecords ==
    [][ResetAll(TRUE) =>
            /\ elements' = <<>> /\ selectedIds' = <<>>
            /\ pushes' = pushes + 1
            /\ historyRef'[historyIndexRef' + 1] = <<>>]_vars

\* the undo that follows a confirmed reset-all gives back the element list
\* the reset removed
C36_UndoRestoresAfterReset ==
    [][(KeyUndo(FALSE) /\ lastOp = "reset") =>
            (elements' = historyRef[historyIndexRef] /\ Len(elements') > 0)]_vars

\* an undo has brought elements back into an empty document
C36_ElementsBack ==
    /\ lastOp = "undo"
    /\ pre = <<>>
    /\ Len(elements) > 0
    /\ selectedIds = <<>>

\* ---------------------------------------------------------------------
\* Pointer-moves with no button down

(***************************************************************************)
(* The editor driven by pointer events on its elements alone: no element   *)
(* is added or removed, and a pointer-down on an element that starts a     *)
(* drag is followed by the pointer-up on that same element                 *)
(***************************************************************************)
MaxPointerSteps == 7  \* events handled in one run of element pointer events

InitPointer ==
    /\ elements \in SavedGestureProjects
    /\ Len(elements) > 0
    /\ historyRef = <<elements>>
    /\ historyIndexRef = 0
    /\ log = <<>>
    /\ nextVal = 0
    /\ free = 0
    /\ undoRun = 0
    /\ lastOp = "init"
    /\ pre = elements
    /\ preIdx = 0
    /\ pushes = 0
    /\ gest = NULL
    /\ tainted = FALSE
    /\ steps = MaxPointerSteps
    /\ EditorDefaults
    /\ uidNext = Len(elements) + 1

NextPointer ==
    \/ \E id \in IdSet(elements), multi \in BOOLEAN :
            PointerDownElement(id, HitPt(id), multi)
    \/ \E t \in IdSet(elements), p \in GesturePts : PointerMove(t, p)
    \/ \E t \in IdSet(elements) : PointerUp(t)

SpecPointer == InitPointer /\ [][NextPointer]_vars

SamePositions ==
    /\ Len(elements') = Len(elements)
    /\ \A i \in 1..Len(elements) :
            /\ elements'[i].id = elements[i].id
            /\ elements'[i].x = elements[i].x
            /\ elements'[i].y = elements[i].y

\* C37: a pointer-move that arrives while no button is down, every
\* pointer-down on an element having been followed by the pointer-up on
\* that element, changes no element's position and adds no history snapshot
C37_IdleMovesChangeNothing ==
    [][\A t \in IdSet(elements), p \in GesturePts :
            (PointerMove(t, p) /\ ~pointer.down) =>
                (SamePositions /\ pushes' = pushes)]_vars

\* the same for the pointer-moves that arrive while dragRef is not set
C37_HoldsWithoutDragRef ==
    [][\A t \in IdSet(elements), p \in GesturePts :
            (PointerMove(t, p) /\ ~pointer.down /\ dragRef = NULL) =>
                (SamePositions /\ pushes' = pushes)]_vars

\* the pointer-up on an element of the dragged set clears dragRef; the
\* pointer-up on a locked element, which is never in the dragged set,
\* leaves it set
C37_PointerUpClearsOwnDrag ==
    [][\A t \in IdSet(elements) :
            (PointerUp(t) /\ dragRef # NULL) =>
                dragRef' = IF Includes(dragRef.ids, t) THEN NULL ELSE dragRef]_vars

\* a pointer-move with no button down has moved a selected unlocked element
\* and added a snapshot, after a press and release on a locked element of
\* the same selection
C37_MovedWithoutButton ==
    /\ lastOp = "move"
    /\ ~pointer.down
    /\ dragRef # NULL
    /\ pushes = 1
    /\ \E i \in 1..Len(elements) :
            /\ Includes(dragRef.ids, elements[i].id)
            /\ <<elements[i].x, elements[i].y>> # <<pre[i].x, pre[i].y>>
    /\ \E i \in 1..Len(elements) :
            IsLocked(elements[i]) /\ Includes(selectedIds, elements[i].id)

\* ---------------------------------------------------------------------
\* Repeated pointer-moves of a drag

\* the last event was a pointer-move of the drag in progress, delivered to
\* a dragged element
DragMoved ==
    /\ lastOp = "move"
    /\ dragRef # NULL
    /\ pointer.down /\ pointer.capture # NULL
    /\ Includes(dragRef.ids, pointer.capture.id)
    /\ Find(pre, dragRef.ids[1]) # NULL
    /\ Find(elements, dragRef.ids[1]) # NULL

\* the pointer positions at which the last pointer-move of the drag gave
\* the current elements
LastMovePts == {p \in GesturePts : elements = MoveAll(pre, dragRef, p)}

\* C38: after a pointer-move of a drag, one more pointer-move at the same
\* pointer position leaves every element where it is
C38_DragMoveIdempotent ==
    DragMoved => \A p \in LastMovePts : MoveAll(elements, dragRef, p) = elements

\* the anchor (first dragged) element is where the pointer asks it to be
AnchorFollows(p) ==
    /\ Find(elements, dragRef.ids[1]).x = p.x - dragRef.dx
    /\ Find(elements, dragRef.ids[1]).y = p.y - dragRef.dy

\* the same for the pointer-moves that did not clamp the anchor element
C38_IdempotentWhenAnchorFree ==
    DragMoved =>
        \A p \in LastMovePts :
            AnchorFollows(p) => MoveAll(elements, dragRef, p) = elements

\* two elements are dragged, the last pointer-move clamped the anchor at
\* the left edge, and the same pointer-move again would move the other one
C38_AnchorClampedDrifts ==
    /\ DragMoved
    /\ Len(dragRef.ids) = 2
    /\ Find(elements, dragRef.ids[1]).x = 0
    /\ \E p \in LastMovePts :
            /\ ~AnchorFollows(p)
            /\ Find(MoveAll(elements, dragRef, p), dragRef.ids[1])
                    = Find(elements, dragRef.ids[1])
            /\ Find(MoveAll(elements, dragRef, p), dragRef.ids[2]).x
                    < Find(elements, dragRef.ids[2]).x

\* ---------------------------------------------------------------------
\* Background changes and their image loads

(***************************************************************************)
(* The background selector, the upload input and the onload callbacks of   *)
(* the FileReader and Image objects they create.  A callback runs some     *)
(* time after its request, in no fixed order with the others.              *)
(***************************************************************************)
MaxBgRequests == 3       \* background changes asked for in one run
MaxBackgroundSteps == 7  \* events and callbacks handled in one run

\* BUILTIN_BACKGROUNDS, with the dimensions their images load with
BUILTIN_BACKGROUNDS ==
    << [id |-> "grid", src |-> "grid-src", ratio |-> "16 / 9"],
       [id |-> "france", src |-> "france-src", ratio |-> "4 / 3"],
       [id |-> "europe", src |-> "europe-src", ratio |-> "4 / 3"] >>

\* the image files the user may upload
UploadFiles == {[src |-> "photo-src", ratio |-> "3 / 2"]}

Requested(id, src, ratio) ==
    [n |-> bgRequested.n + 1, id |-> id, src |-> src, ratio |-> ratio]

\* a pending load of the request made last
PendingLoad(stage, id, src, ratio) ==
    [n |-> bgRequested.n + 1, stage |-> stage, id |-> id, src |-> src,
     ratio |-> ratio]

\* setBuiltinBg(id)
SetBuiltinBg(id) ==
    /\ steps > 0
    /\ ~ModalOpen
    /\ bgRequested.n < MaxBgRequests
    /\ LET found == SelectSeq(BUILTIN_BACKGROUNDS, LAMBDA b : b.id = id)
           bg == IF Len(found) > 0 THEN found[1] ELSE BUILTIN_BACKGROUNDS[1]
       IN  /\ bgRequested' = Requested(bg.id, bg.src, bg.ratio)
           /\ IF bg.id = "grid"
              THEN /\ bgId' = bg.id
                   /\ bgUrl' = bg.src
                   /\ aspectRatio' = "16 / 9"
                   /\ selectedIds' = <<>>
                   /\ UNCHANGED imageLoads
              ELSE /\ imageLoads' = imageLoads \cup
                            {PendingLoad("image", bg.id, bg.src, bg.ratio)}
                   /\ UNCHANGED <<bgId, bgUrl, aspectRatio, selectedIds>>
    /\ Keep
    /\ Evt("setBg")
    /\ UNCHANGED <<clipboard, toolVars, drawVars, refVars, menuVars, prefVars,
                   uidNext, pointer>>
    /\ AutoSaveEffect

\* onUploadBg(file)
UploadBg(file) ==
    /\ steps > 0
    /\ ~ModalOpen
    /\ bgRequested.n < MaxBgRequests
    /\ bgRequested' = Requested("upload", file.src, file.ratio)
    /\ imageLoads' = imageLoads \cup
            {PendingLoad("reader", "upload", file.src, file.ratio)}
    /\ Keep
    /\ Evt("setBg")
    /\ UNCHANGED <<selVars, toolVars, drawVars, refVars, menuVars, prefVars,
                   bgId, bgUrl, aspectRatio, uidNext, pointer>>
    /\ AutoSaveEffect

\* reader.onload of onUploadBg: the data URL is given to a new Image
ReaderOnload(load) ==
    /\ steps > 0
    /\ load \in imageLoads
    /\ load.stage = "reader"
    /\ imageLoads' = (imageLoads \ {load}) \cup {[load EXCEPT !.stage = "image"]}
    /\ Keep
    /\ Evt("readerLoaded")
    /\ UNCHANGED <<selVars, toolVars, drawVars, refVars, menuVars, prefVars,
                   bgId, bgUrl, aspectRatio, bgRequested, uidNext, pointer>>
    /\ AutoSaveEffect

\* img.onload of setBuiltinBg and of onUploadBg
ImageOnload(load) ==
    /\ steps > 0
    /\ load \in imageLoads
    /\ load.stage = "image"
    /\ aspectRatio' = load.ratio
    /\ bgId' = load.id
    /\ bgUrl' = load.src
    /\ selectedIds' = <<>>
    /\ imageLoads' = imageLoads \ {load}
    /\ Keep
    /\ Evt("imageLoaded")
    /\ UNCHANGED <<clipboard, toolVars, drawVars, refVars, menuVars, prefVars,
                   bgRequested, uidNext, pointer>>
    /\ AutoSaveEffect

InitBackground ==
    /\ elements \in SavedProjects
    /\ historyRef = <<elements>>
    /\ historyIndexRef = 0
    /\ log = <<>>
    /\ nextVal = 0
    /\ free = 0
    /\ undoRun = 0
    /\ lastOp = "init"
    /\ pre = elements
    /\ preIdx = 0
    /\ pushes = 0
    /\ gest = NULL
    /\ tainted = FALSE
    /\ steps = MaxBackgroundSteps
    /\ EditorDefaults
    /\ uidNext = Len(elements) + 1

NextBackground ==
    \/ \E i \in 1..Len(BUILTIN_BACKGROUNDS) : SetBuiltinBg(BUILTIN_BACKGROUNDS[i].id)
    \/ \E file \in UploadFiles : UploadBg(file)
    \/ \E load \in imageLoads : ReaderOnload(load)
    \/ \E load \in imageLoads : ImageOnload(load)
    \/ \E id \in IdSet(elements) : ElementContextMenu(id, HitPt(id))

SpecBackground == InitBackground /\ [][NextBackground]_vars

Displayed == [id |-> bgId, src |-> bgUrl, ratio |-> aspectRatio]

Asked == [id |-> bgRequested.id, src |-> bgRequested.src,
          ratio |-> bgRequested.ratio]

\* C39: once no image load is pending, the background displayed (bgId,
\* bgUrl, aspectRatio) is the one asked for last, whatever the order the
\* loads completed in
C39_LastRequestDisplayed ==
    (imageLoads = {} /\ bgRequested.n > 0) => Displayed = Asked

\* every completed image load displays its own background, asked for last
\* or not
C39_LoadDisplaysItsOwn ==
    [][\A load \in imageLoads :
            ImageOnload(load) =>
                /\ bgId' = load.id /\ bgUrl' = load.src
                /\ aspectRatio' = load.ratio
                /\ selectedIds' = <<>>
                /\ HistoryUntouched]_vars

\* when the load that completes last is the one of the last request, the
\* background asked for last is displayed
C39_HoldsWhenLastLoadIsLastRequest ==
    [][\A load \in imageLoads :
            (ImageOnload(load) /\ imageLoads = {load}
                /\ load.n = bgRequested.n) => Displayed' = Asked']_vars

\* the grid was asked for after the France map, the France map has loaded
\* since and is displayed
C39_StaleLoadDisplayed ==
    /\ lastOp = "imageLoaded"
    /\ imageLoads = {}
    /\ bgRequested.id = "grid" /\ bgRequested.n = 2
    /\ bgId = "france" /\ aspectRatio = "4 / 3"

\* two image loads completed in the converse order of their requests
C39_LoadsOutOfOrder ==
    /\ lastOp = "imageLoaded"
    /\ imageLoads = {}
    /\ bgRequested.n = 2
    /\ bgRequested.id = "upload"
    /\ bgId = "europe"

\* ---------------------------------------------------------------------
\* Icons drawn on the map and icons in the legend

(***************************************************************************)
(* The editor driven through the element menu, the edit modal and the      *)
(* delete button of a custom icon in the palette                           *)
(***************************************************************************)
MaxCatalogSteps == 6  \* events handled in one run over the icon catalogue

\* deleteCustomIcon(id), from the button the palette shows on a custom icon
DeleteCustomIcon(id) ==
    /\ steps > 0
    /\ ~ModalOpen
    /\ \E i \in 1..Len(customIcons.array) : customIcons.array[i].id = id
    /\ customIcons' = Array(SelectSeq(customIcons.array, LAMBDA ic : ic.id # id))
    /\ Keep
    /\ Evt("deleteIcon")
    /\ UNCHANGED <<selVars, toolVars, drawVars, refVars, menuVars,
                   lastLabelFontSize, lastTempFontSize, lastWindFontSize,
                   bgVars, uidNext, pointer>>
    /\ AutoSaveEffect

\* the icon an icon element is rendered with:
\* getAvailableIcons().find((i) => i.id === el.iconId) ?? ICONS[0]
RenderedIcon(el) ==
    LET found == SelectSeq(getAvailableIcons, LAMBDA i : i.id = el.iconId)
    IN  IF Len(found) > 0 THEN found[1] ELSE ICONS[1]

InitCatalog ==
    /\ elements \in SavedProjects
    /\ Len(elements) > 0
    /\ historyRef = <<elements>>
    /\ historyIndexRef = 0
    /\ log = <<>>
    /\ nextVal = 0
    /\ free = 0
    /\ undoRun = 0
    /\ lastOp = "init"
    /\ pre = elements
    /\ preIdx = 0
    /\ pushes = 0
    /\ gest = NULL
    /\ tainted = FALSE
    /\ steps = MaxCatalogSteps
    /\ EditorDefaults
    /\ uidNext = Len(elements) + 1

NextCatalog ==
    \/ \E id \in IdSet(elements) : ElementContextMenu(id, HitPt(id))
    \/ MenuEdit
    \/ MenuDuplicate
    \/ \E emoji \in EMOJI_PICKER : ModalPickEmoji(emoji)
    \/ CloseModal
    \/ \E i \in 1..Len(customIcons.array) :
            DeleteCustomIcon(customIcons.array[i].id)
    \/ KeyUndo(FALSE)

SpecCatalog == InitCatalog /\ [][NextCatalog]_vars

\* the legend has an icon entry with the given glyph
InLegend(glyph) ==
    \E j \in 1..Len(generateLegend) :
        generateLegend[j].kind = "icon" /\ generateLegend[j].glyph = glyph

\* el refers to an icon of the catalogue
Catalogued(el) ==
    \E j \in 1..Len(getAvailableIcons) : getAvailableIcons[j].id = el.iconId

\* C40: every icon element of the document has a legend entry with the
\* glyph it is drawn with, also after the custom icon it refers to was
\* deleted from the catalogue
C40_DrawnIconsInLegend ==
    \A i \in 1..Len(elements) :
        elements[i].kind = "icon" => InLegend(RenderedIcon(elements[i]).glyph)

\* the same for the icon elements whose icon is in the catalogue
C40_CataloguedIconsInLegend ==
    \A i \in 1..Len(elements) :
        (elements[i].kind = "icon" /\ Catalogued(elements[i]))
            => InLegend(RenderedIcon(elements[i]).glyph)

\* deleting a custom icon leaves the elements and the history as they are,
\* the elements that refer to it included, and takes it out of the catalogue
C40_DeleteKeepsElements ==
    [][\A i \in 1..Len(customIcons.array) :
            DeleteCustomIcon(customIcons.array[i].id) =>
                /\ HistoryUntouched
                /\ \A j \in 1..Len(customIcons'.array) :
                        customIcons'.array[j].id # customIcons.array[i].id]_vars

\* the custom icon of an element was deleted: the element is still in the
\* document, is drawn with the first built-in glyph, and the legend is empty
C40_OrphanIconNotInLegend ==
    /\ lastOp = "deleteIcon"
    /\ \E i \in 1..Len(elements) :
            /\ elements[i].kind = "icon"
            /\ ~Catalogued(elements[i])
            /\ RenderedIcon(elements[i]).glyph = ICONS[1].glyph
            /\ ~InLegend(ICONS[1].glyph)

====
